---- MODULE Spec2Model ----
(***************************************************************************)
(* Storage engine of the MCP registry: the in-memory store (a map guarded  *)
(* by a sync.RWMutex) and the SQLite store (a table with PRIMARY KEY id    *)
(* and UNIQUE name), driven by concurrent request workers.                 *)
(***************************************************************************)
EXTENDS Integers, Sequences, FiniteSets, TLC

VARIABLES
    storageType,  \* cfg.StorageType: which store main() built
    servers,      \* MemoryStore.servers: map id -> models.Server
    writer,       \* MemoryStore.mu: the worker holding the write lock
    readers,      \* MemoryStore.mu: the workers holding the read lock
    table,        \* SQLite table servers: a set of rows
    heap,         \* backing arrays of the []string slices built by callers
    now,          \* wall clock, in seconds
    calls,        \* number of store calls started so far
    pc,           \* per worker: position inside its current call
    op,           \* per worker: the store method it called last
    arg,          \* per worker: the parameters of that call
    ret,          \* per worker: what that call returned
    loc,          \* per worker: SQLite Create/Update locals (server, tagsJSON)
    held          \* per worker: the caller's own copy of a record it changed

vars == <<storageType, servers, writer, readers, table, heap, now, calls,
          pc, op, arg, ret, loc, held>>

----------------------------------------------------------------------------
(* Bounds *)

MaxCalls == 2
MaxTime == 1

Workers == {"w1", "w2"}
NoWorker == "none"

----------------------------------------------------------------------------
(* models.Server and Go slices *)

\* A []string value: nil, or a view of a backing array shared by every copy
\* of the slice header ("ref"), or a backing array nothing else refers to
\* ("own", as json.Unmarshal builds it).
NilSlice == [kind |-> "nil", addr |-> 0, elems |-> <<>>]
RefSlice(a) == [kind |-> "ref", addr |-> a, elems |-> <<>>]
OwnSlice(s) == [kind |-> "own", addr |-> 0, elems |-> s]

Elems(h, s) == IF s.kind = "ref" THEN h[s.addr] ELSE s.elems

Server(id, name, description, version, repository, author, tags, isActive, createdAt) ==
    [ID |-> id, Name |-> name, Description |-> description, Version |-> version,
     Repository |-> repository, Author |-> author, Tags |-> tags,
     IsActive |-> isActive, CreatedAt |-> createdAt]

\* The zero value of models.Server; stands for a nil *models.Server in results.
NilServer == Server("", "", "", "", "", "", NilSlice, FALSE, "")

\* What a caller reads from a record: its fields with the tags dereferenced.
Value(h, s) ==
    [ID |-> s.ID, Name |-> s.Name, Description |-> s.Description,
     Version |-> s.Version, Repository |-> s.Repository, Author |-> s.Author,
     TagsNil |-> (s.Tags.kind = "nil"), Tags |-> Elems(h, s.Tags),
     IsActive |-> s.IsActive, CreatedAt |-> s.CreatedAt]

----------------------------------------------------------------------------
(* Errors *)

NoErr == [kind |-> "nil", fields |-> <<>>]
ErrServerNotFound == [kind |-> "server not found", fields |-> <<>>]
ErrServerExists == [kind |-> "server already exists", fields |-> <<>>]
ErrInvalidID == [kind |-> "invalid server ID", fields |-> <<>>]
ValidationErrors(fs) == [kind |-> "validation failed", fields |-> fs]
WrappedErr(msg) == [kind |-> msg, fields |-> <<>>]

\* models.ValidationError
ValidationError(field, message) == [Field |-> field, Message |-> message]

\* ValidationError.Error, as the pieces it concatenates
ValidationErrorText(e) == <<e.Field, ": ", e.Message>>

\* The loop of ValidationErrors.Error over ve[i..]
RECURSIVE JoinErrors(_, _)
JoinErrors(ve, i) ==
    IF i > Len(ve) THEN <<>>
    ELSE (IF i > 1 THEN <<", ">> ELSE <<>>) \o ValidationErrorText(ve[i])
             \o JoinErrors(ve, i + 1)

\* ValidationErrors.Error, as the pieces it concatenates
ValidationErrorsText(ve) ==
    IF Len(ve) = 0 THEN <<"no validation errors">>
    ELSE <<"validation failed: ">> \o JoinErrors(ve, 1)

\* Mutant: only the id is validated.
ValidateServer_IDOnly(server) ==
    IF server.ID = "" THEN ValidationErrors(<<ValidationError("id", "is required")>>)
    ELSE NoErr

\* Mutant: validation stops at the first empty field.
ValidateServer_FailFast(server) ==
    IF server.ID = "" THEN ValidationErrors(<<ValidationError("id", "is required")>>)
    ELSE IF server.Name = ""
    THEN ValidationErrors(<<ValidationError("name", "is required")>>)
    ELSE IF server.Version = ""
    THEN ValidationErrors(<<ValidationError("version", "is required")>>)
    ELSE NoErr

\* models.ValidateServer: one entry per empty field among id, name, version,
\* appended in that order; nil when there is none.
ValidateServer(server) ==
    LET e1 == IF server.ID = "" THEN <<ValidationError("id", "is required")>> ELSE <<>>
        e2 == IF server.Name = ""
              THEN e1 \o <<ValidationError("name", "is required")>> ELSE e1
        e3 == IF server.Version = ""
              THEN e2 \o <<ValidationError("version", "is required")>> ELSE e2
    IN  IF Len(e3) > 0 THEN ValidationErrors(e3) ELSE NoErr

----------------------------------------------------------------------------
(* Time *)

Stamps == <<"2025-05-16T10:00:00Z", "2025-05-16T10:00:01Z",
            "2025-05-16T10:00:02Z", "2025-05-16T10:00:03Z">>

\* time.Now().Format(time.RFC3339) at clock value t
RFC3339(t) == Stamps[t + 1]

CallerStamp == "2024-01-01T00:00:00Z"

----------------------------------------------------------------------------
(* Inputs of the callers *)

IDs == {"a", "b"}
Keys == IDs \cup {""}

\* Records as a caller writes them; Tags holds the elements, <<>> for nil.
Profile(id, p) ==
    IF p = 1
    THEN Server(id, "Web", "first", "1.0", "https://github.com/acme/web", "acme",
                <<>>, TRUE, "")
    ELSE Server(id, "web-db", "second", "2.0", "https://github.com/corp/db", "corp",
                <<"t1", "t2">>, FALSE, CallerStamp)

ValidInputs == {Profile(id, p) : id \in IDs, p \in {1, 2}}

InvalidInputs ==
    {[Profile("a", 1) EXCEPT !.ID = ""],
     [Profile("a", 1) EXCEPT !.Name = ""],
     [Profile("a", 1) EXCEPT !.Version = ""],
     [Profile("a", 1) EXCEPT !.ID = "", !.Name = "", !.Version = ""]}

Inputs == ValidInputs \cup InvalidInputs

\* The record a call receives: the caller's slice is a view of a new array.
Materialize(t, a) ==
    [t EXCEPT !.Tags = IF t.Tags = <<>> THEN NilSlice ELSE RefSlice(a)]

----------------------------------------------------------------------------
(* Worker bookkeeping *)

NoArg == [server |-> NilServer, key |-> ""]
NoRet == [err |-> NoErr, server |-> NilServer, servers |-> <<>>,
          total |-> 0, active |-> 0]
NoLoc == [server |-> NilServer, tagsJSON |-> <<>>]

Returned(e) == [NoRet EXCEPT !.err = e]

CanCall(w) == pc[w] \in {"idle", "done"} /\ calls < MaxCalls

\* Every sequence listing each element of S once.
Orderings(S) ==
    {s \in [1..Cardinality(S) -> S] : \A i, j \in 1..Cardinality(S) : s[i] = s[j] => i = j}

Range(s) == {s[i] : i \in 1..Len(s)}

\* What the database file may hold when the process starts: nothing, or the
\* row an earlier run created.
PersistedRows ==
    {[id |-> "b", name |-> "Web", description |-> "first", version |-> "1.0",
      repository |-> "https://github.com/acme/web", author |-> "acme",
      tags |-> <<"null">>, is_active |-> 1, created_at |-> CallerStamp]}

Init ==
    /\ storageType \in {"memory", "sqlite"}
    /\ servers = <<>>
    /\ writer = NoWorker
    /\ readers = {}
    /\ table \in IF storageType = "sqlite" THEN {{}, PersistedRows} ELSE {{}}
    /\ heap = [a \in 1..MaxCalls |-> <<>>]
    /\ now = 0
    /\ calls = 0
    /\ pc = [w \in Workers |-> "idle"]
    /\ op = [w \in Workers |-> "none"]
    /\ arg = [w \in Workers |-> NoArg]
    /\ ret = [w \in Workers |-> NoRet]
    /\ loc = [w \in Workers |-> NoLoc]
    /\ held = [w \in Workers |-> NilServer]

\* The clock advances.
Tick ==
    /\ now < MaxTime
    /\ now' = now + 1
    /\ UNCHANGED <<storageType, servers, writer, readers, table, heap, calls,
                   pc, op, arg, ret, loc, held>>

----------------------------------------------------------------------------
(* Entry of Create and Update: both stores validate first *)

WriteCall(w, o, t) ==
    LET server == Materialize(t, calls + 1)
        err == ValidateServer(server)
    IN  /\ CanCall(w)
        /\ calls' = calls + 1
        /\ heap' = [heap EXCEPT ![calls + 1] = t.Tags]
        /\ op' = [op EXCEPT ![w] = o]
        /\ arg' = [arg EXCEPT ![w] = [server |-> server, key |-> ""]]
        /\ held' = [held EXCEPT ![w] = NilServer]
        /\ loc' = [loc EXCEPT ![w] = NoLoc]
        /\ IF err # NoErr
           THEN /\ pc' = [pc EXCEPT ![w] = "done"]
                /\ ret' = [ret EXCEPT ![w] = Returned(err)]
           ELSE /\ pc' = [pc EXCEPT ![w] = IF storageType = "memory" THEN "lock" ELSE "check"]
                /\ ret' = [ret EXCEPT ![w] = NoRet]
        /\ UNCHANGED <<storageType, servers, writer, readers, table, now>>

CreateCall(w) == \E t \in Inputs : WriteCall(w, "Create", t)

UpdateCall(w) == \E t \in Inputs : WriteCall(w, "Update", t)

----------------------------------------------------------------------------
(* MemoryStore *)

\* Mutant: a write lock that does not wait for the readers.
Lock_IgnoresReaders(w) ==
    /\ storageType = "memory"
    /\ pc[w] = "lock"
    /\ op[w] \in {"Create", "Update", "Delete"}
    /\ writer = NoWorker
    /\ writer' = w
    /\ pc' = [pc EXCEPT ![w] = "body"]
    /\ UNCHANGED <<storageType, servers, readers, table, heap, now, calls,
                   op, arg, ret, loc, held>>

\* m.mu.Lock()
Lock(w) ==
    /\ storageType = "memory"
    /\ pc[w] = "lock"
    /\ op[w] \in {"Create", "Update", "Delete"}
    /\ writer = NoWorker
    /\ readers = {}
    /\ writer' = w
    /\ pc' = [pc EXCEPT ![w] = "body"]
    /\ UNCHANGED <<storageType, servers, readers, table, heap, now, calls,
                   op, arg, ret, loc, held>>

\* Mutant: a read lock that does not wait for the writer.
RLock_IgnoresWriter(w) ==
    /\ storageType = "memory"
    /\ pc[w] = "lock"
    /\ op[w] \in {"GetAll", "GetByID", "Search", "Count"}
    /\ readers' = readers \cup {w}
    /\ pc' = [pc EXCEPT ![w] = "body"]
    /\ UNCHANGED <<storageType, servers, writer, table, heap, now, calls,
                   op, arg, ret, loc, held>>

\* m.mu.RLock()
RLock(w) ==
    /\ storageType = "memory"
    /\ pc[w] = "lock"
    /\ op[w] \in {"GetAll", "GetByID", "Search", "Count"}
    /\ writer = NoWorker
    /\ readers' = readers \cup {w}
    /\ pc' = [pc EXCEPT ![w] = "body"]
    /\ UNCHANGED <<storageType, servers, writer, table, heap, now, calls,
                   op, arg, ret, loc, held>>

\* Mutant: the assignment drops the other records.
MapPut_Alone(m, k, server) == [x \in {k} |-> server]

\* The map after m.servers[k] = server
MapPut(m, k, server) ==
    [x \in DOMAIN m \cup {k} |-> IF x = k THEN server ELSE m[x]]

\* Mutant: the record stays in the map.
MapDelete_Nothing(m, k) == m

\* The map after delete(m.servers, k)
MapDelete(m, k) == [x \in DOMAIN m \ {k} |-> m[x]]

\* Mutant: Create never sets the creation time.
MemCreateStored_NoDefault(server, t) == server

\* MemoryStore.Create: the record it stores
MemCreateStored(server, t) ==
    IF server.CreatedAt = "" THEN [server EXCEPT !.CreatedAt = RFC3339(t)] ELSE server

\* Mutant: Create without the existence check.
MemCreateErr_NoCheck(m, server) == NoErr

\* MemoryStore.Create: the existence check
MemCreateErr(m, server) == IF server.ID \in DOMAIN m THEN ErrServerExists ELSE NoErr

\* Mutant: Create stores the record before it looks for an existing one.
MemCreateMap_Overwrite(m, server, t) ==
    MapPut(m, server.ID, MemCreateStored(server, t))

\* MemoryStore.Create: the map it leaves
MemCreateMap(m, server, t) ==
    IF server.ID \in DOMAIN m THEN m
    ELSE MapPut(m, server.ID, MemCreateStored(server, t))

\* MemoryStore.Create from the existence check to the deferred Unlock
MemCreate(w) ==
    LET server == arg[w].server IN
    /\ storageType = "memory"
    /\ pc[w] = "body"
    /\ op[w] = "Create"
    /\ writer = w
    /\ ret' = [ret EXCEPT ![w] = Returned(MemCreateErr(servers, server))]
    /\ servers' = MemCreateMap(servers, server, now)
    /\ writer' = NoWorker
    /\ pc' = [pc EXCEPT ![w] = "done"]
    /\ UNCHANGED <<storageType, readers, table, heap, now, calls, op, arg, loc, held>>

\* Mutant: Update stores the caller's creation time.
MemUpdateStored_CallerTime(server, existing) == server

\* MemoryStore.Update: the record it stores
MemUpdateStored(server, existing) == [server EXCEPT !.CreatedAt = existing.CreatedAt]

\* MemoryStore.Update from the existence check to the deferred Unlock
MemUpdate(w) ==
    LET server == arg[w].server IN
    /\ storageType = "memory"
    /\ pc[w] = "body"
    /\ op[w] = "Update"
    /\ writer = w
    /\ IF server.ID \notin DOMAIN servers
       THEN /\ ret' = [ret EXCEPT ![w] = Returned(ErrServerNotFound)]
            /\ servers' = servers
       ELSE /\ ret' = [ret EXCEPT ![w] = Returned(NoErr)]
            /\ servers' = MapPut(servers, server.ID,
                                 MemUpdateStored(server, servers[server.ID]))
    /\ writer' = NoWorker
    /\ pc' = [pc EXCEPT ![w] = "done"]
    /\ UNCHANGED <<storageType, readers, table, heap, now, calls, op, arg, loc, held>>

\* Entry of a call that takes an id or a query, up to its early return.
KeyCall(w, o, k, early) ==
    /\ CanCall(w)
    /\ calls' = calls + 1
    /\ op' = [op EXCEPT ![w] = o]
    /\ arg' = [arg EXCEPT ![w] = [server |-> NilServer, key |-> k]]
    /\ held' = [held EXCEPT ![w] = NilServer]
    /\ loc' = [loc EXCEPT ![w] = NoLoc]
    /\ IF k = ""
       THEN /\ pc' = [pc EXCEPT ![w] = "done"]
            /\ ret' = [ret EXCEPT ![w] = early]
       ELSE /\ pc' = [pc EXCEPT ![w] = "lock"]
            /\ ret' = [ret EXCEPT ![w] = NoRet]
    /\ UNCHANGED <<storageType, servers, writer, readers, table, heap, now>>

MemDeleteCall(w) ==
    /\ storageType = "memory"
    /\ \E id \in Keys : KeyCall(w, "Delete", id, Returned(ErrInvalidID))

\* MemoryStore.Delete: the existence check
MemDeleteErr(m, id) == IF id \notin DOMAIN m THEN ErrServerNotFound ELSE NoErr

\* MemoryStore.Delete from the existence check to the deferred Unlock
MemDelete(w) ==
    LET id == arg[w].key IN
    /\ storageType = "memory"
    /\ pc[w] = "body"
    /\ op[w] = "Delete"
    /\ writer = w
    /\ ret' = [ret EXCEPT ![w] = Returned(MemDeleteErr(servers, id))]
    /\ servers' = IF id \notin DOMAIN servers THEN servers ELSE MapDelete(servers, id)
    /\ writer' = NoWorker
    /\ pc' = [pc EXCEPT ![w] = "done"]
    /\ UNCHANGED <<storageType, readers, table, heap, now, calls, op, arg, loc, held>>

MemGetByIDCall(w) ==
    /\ storageType = "memory"
    /\ \E id \in Keys : KeyCall(w, "GetByID", id, Returned(ErrInvalidID))

\* Mutant: a read that returns without RUnlock.
MemRead_NoRUnlock(w, o, result) ==
    /\ storageType = "memory"
    /\ pc[w] = "body"
    /\ op[w] = o
    /\ w \in readers
    /\ ret' = [ret EXCEPT ![w] = result]
    /\ pc' = [pc EXCEPT ![w] = "done"]
    /\ UNCHANGED <<storageType, servers, writer, readers, table, heap, now, calls,
                   op, arg, loc, held>>

\* The body of a read, from after RLock to the deferred RUnlock.
MemRead(w, o, result) ==
    /\ storageType = "memory"
    /\ pc[w] = "body"
    /\ op[w] = o
    /\ w \in readers
    /\ ret' = [ret EXCEPT ![w] = result]
    /\ readers' = readers \ {w}
    /\ pc' = [pc EXCEPT ![w] = "done"]
    /\ UNCHANGED <<storageType, servers, writer, table, heap, now, calls,
                   op, arg, loc, held>>

\* MemoryStore.GetByID: the record is copied, its Tags header with it.
MemGetByIDResult(m, id) ==
    IF id \notin DOMAIN m
    THEN Returned(ErrServerNotFound)
    ELSE [NoRet EXCEPT !.server = m[id]]

MemGetByID(w) == MemRead(w, "GetByID", MemGetByIDResult(servers, arg[w].key))

\* Entry of a call without parameters.
PlainCall(w, o) ==
    /\ CanCall(w)
    /\ calls' = calls + 1
    /\ op' = [op EXCEPT ![w] = o]
    /\ arg' = [arg EXCEPT ![w] = NoArg]
    /\ held' = [held EXCEPT ![w] = NilServer]
    /\ loc' = [loc EXCEPT ![w] = NoLoc]
    /\ pc' = [pc EXCEPT ![w] = "lock"]
    /\ ret' = [ret EXCEPT ![w] = NoRet]
    /\ UNCHANGED <<storageType, servers, writer, readers, table, heap, now>>

MemGetAllCall(w) == storageType = "memory" /\ PlainCall(w, "GetAll")

\* MemoryStore.GetAll: the map's values in the order the iteration yields.
MemGetAllResults(m) ==
    {[NoRet EXCEPT !.servers = s] : s \in Orderings({m[k] : k \in DOMAIN m})}

MemGetAll(w) == \E r \in MemGetAllResults(servers) : MemRead(w, "GetAll", r)

----------------------------------------------------------------------------
(* Strings as the characters strings.ToLower and strings.Contains see *)

Chars(s) ==
    CASE s = "Web" -> <<"W", "e", "b">>
      [] s = "web-db" -> <<"w", "e", "b", "-", "d", "b">>
      [] s = "WEB" -> <<"W", "E", "B">>
      [] s = "db" -> <<"d", "b">>
      [] s = "_" -> <<"_">>
      [] OTHER -> <<>>

LowerChar(c) ==
    CASE c = "W" -> "w"
      [] c = "E" -> "e"
      [] c = "B" -> "b"
      [] OTHER -> c

ToLower(cs) == [i \in 1..Len(cs) |-> LowerChar(cs[i])]

Contains(s, substr) ==
    \E i \in 0..(Len(s) - Len(substr)) : SubSeq(s, i + 1, i + Len(substr)) = substr

Queries == {"", "WEB", "db"}

\* Queries with a character that LIKE reads as a wildcard
WildcardQueries == Queries \cup {"_"}

MemSearchCall(w) ==
    /\ storageType = "memory"
    /\ \E q \in Queries : KeyCall(w, "Search", q, NoRet)

\* Mutant: the names are compared as they are written.
MemSearchMatches_CaseSensitive(m, nameQuery) ==
    {m[k] : k \in {x \in DOMAIN m : Contains(Chars(m[x].Name), ToLower(Chars(nameQuery)))}}

\* MemoryStore.Search: the records the loop appends
MemSearchMatches(m, nameQuery) ==
    {m[k] : k \in {x \in DOMAIN m :
                     Contains(ToLower(Chars(m[x].Name)), ToLower(Chars(nameQuery)))}}

MemSearchResults(m, nameQuery) ==
    {[NoRet EXCEPT !.servers = s] : s \in Orderings(MemSearchMatches(m, nameQuery))}

MemSearch(w) ==
    \E r \in MemSearchResults(servers, arg[w].key) : MemRead(w, "Search", r)

MemCountCall(w) == storageType = "memory" /\ PlainCall(w, "Count")

\* Mutant: every record counts as active.
MemCountResult_AllActive(m) ==
    [NoRet EXCEPT !.total = Cardinality(DOMAIN m), !.active = Cardinality(DOMAIN m)]

\* MemoryStore.Count: len(m.servers) and the records with IsActive
MemCountResult(m) ==
    [NoRet EXCEPT !.total = Cardinality(DOMAIN m),
                  !.active = Cardinality({k \in DOMAIN m : m[k].IsActive})]

MemCount(w) == MemRead(w, "Count", MemCountResult(servers))

----------------------------------------------------------------------------
(* SQLiteStore: every SQL statement is one atomic step of the engine *)

\* json.Marshal of a []string, as the tokens of the text it writes
Marshal(h, tags) ==
    IF tags.kind = "nil" THEN <<"null">> ELSE <<"[">> \o Elems(h, tags) \o <<"]">>

\* json.Unmarshal into a nil []string: null leaves it nil, an array builds
\* a new slice
Unmarshal(tagsJSON) ==
    IF tagsJSON = <<"null">> THEN NilSlice
    ELSE OwnSlice(SubSeq(tagsJSON, 2, Len(tagsJSON) - 1))

\* The row an INSERT of Create binds (is_active as the integer the driver
\* writes for a bool)
InsertRow(server, tagsJSON) ==
    [id |-> server.ID, name |-> server.Name, description |-> server.Description,
     version |-> server.Version, repository |-> server.Repository,
     author |-> server.Author, tags |-> tagsJSON,
     is_active |-> IF server.IsActive THEN 1 ELSE 0,
     created_at |-> server.CreatedAt]

\* SQLiteStore.scanServer
scanServer(row) ==
    Server(row.id, row.name, row.description, row.version, row.repository,
           row.author, IF row.tags # <<>> THEN Unmarshal(row.tags) ELSE NilSlice,
           row.is_active # 0, row.created_at)

\* The rows SELECT ... WHERE id = ? yields
RowsByID(t, id) == {r \in t : r.id = id}

\* Mutant: the table without its primary key.
UniqueViolation_NoPrimaryKey(t, row) == \E r \in t : r.name = row.name

\* Mutant: the table without UNIQUE on name.
UniqueViolation_NoUniqueName(t, row) == \E r \in t : r.id = row.id

\* CREATE TABLE servers: id TEXT PRIMARY KEY, name TEXT NOT NULL UNIQUE
UniqueViolation(t, row) == \E r \in t : r.id = row.id \/ r.name = row.name

\* Mutant: GetByID without the check for the empty id.
SqlGetByIDResult_NoEmptyCheck(t, id) ==
    IF RowsByID(t, id) = {} THEN Returned(ErrServerNotFound)
    ELSE [NoRet EXCEPT !.server = scanServer(CHOOSE r \in RowsByID(t, id) : TRUE)]

\* SQLiteStore.GetByID
SqlGetByIDResult(t, id) ==
    IF id = "" THEN Returned(ErrInvalidID)
    ELSE IF RowsByID(t, id) = {} THEN Returned(ErrServerNotFound)
    ELSE [NoRet EXCEPT !.server = scanServer(CHOOSE r \in RowsByID(t, id) : TRUE)]

\* SQLiteStore.Create: the GetByID pre-check, then json.Marshal and time.Now
SqlCreateCheck(w) ==
    LET server == arg[w].server
        found == SqlGetByIDResult(table, server.ID)
        stamped == IF server.CreatedAt = ""
                   THEN [server EXCEPT !.CreatedAt = RFC3339(now)] ELSE server
    IN  /\ storageType = "sqlite"
        /\ pc[w] = "check"
        /\ op[w] = "Create"
        /\ IF found.err = NoErr
           THEN /\ pc' = [pc EXCEPT ![w] = "done"]
                /\ ret' = [ret EXCEPT ![w] = Returned(ErrServerExists)]
                /\ UNCHANGED <<arg, loc>>
           ELSE IF found.err # ErrServerNotFound
           THEN /\ pc' = [pc EXCEPT ![w] = "done"]
                /\ ret' = [ret EXCEPT ![w] =
                              Returned(WrappedErr("failed to check existing server"))]
                /\ UNCHANGED <<arg, loc>>
           ELSE /\ pc' = [pc EXCEPT ![w] = "exec"]
                /\ loc' = [loc EXCEPT ![w] = [server |-> stamped,
                                              tagsJSON |-> Marshal(heap, server.Tags)]]
                /\ UNCHANGED <<arg, ret>>
        /\ UNCHANGED <<storageType, servers, writer, readers, table, heap, now,
                       calls, op, held>>

\* Mutant: the INSERT's constraint error is wrapped like any other error.
InsertErr_Wrapped(violation) ==
    IF violation THEN WrappedErr("failed to insert server") ELSE NoErr

\* SQLiteStore.Create: what it returns for the INSERT's outcome
InsertErr(violation) == IF violation THEN ErrServerExists ELSE NoErr

\* SQLiteStore.Create: the INSERT and the mapping of its error
SqlCreateInsert(w) ==
    LET row == InsertRow(loc[w].server, loc[w].tagsJSON) IN
    /\ storageType = "sqlite"
    /\ pc[w] = "exec"
    /\ op[w] = "Create"
    /\ ret' = [ret EXCEPT ![w] = Returned(InsertErr(UniqueViolation(table, row)))]
    /\ table' = IF UniqueViolation(table, row) THEN table ELSE table \cup {row}
    /\ pc' = [pc EXCEPT ![w] = "done"]
    /\ UNCHANGED <<storageType, servers, writer, readers, heap, now, calls,
                   op, arg, loc, held>>

\* SQLiteStore.Update: the GetByID check, then json.Marshal
SqlUpdateCheck(w) ==
    LET server == arg[w].server
        found == SqlGetByIDResult(table, server.ID)
    IN  /\ storageType = "sqlite"
        /\ pc[w] = "check"
        /\ op[w] = "Update"
        /\ IF found.err # NoErr
           THEN /\ pc' = [pc EXCEPT ![w] = "done"]
                /\ ret' = [ret EXCEPT ![w] = Returned(found.err)]
                /\ UNCHANGED <<arg, loc>>
           ELSE /\ pc' = [pc EXCEPT ![w] = "exec"]
                /\ loc' = [loc EXCEPT ![w] =
                              [server |-> [server EXCEPT !.CreatedAt = found.server.CreatedAt],
                               tagsJSON |-> Marshal(heap, server.Tags)]]
                /\ UNCHANGED <<arg, ret>>
        /\ UNCHANGED <<storageType, servers, writer, readers, table, heap, now,
                       calls, op, held>>

\* Mutant: the UPDATE leaves is_active out.
UpdatedRow_KeepsActive(r, server, tagsJSON) ==
    [r EXCEPT !.name = server.Name, !.description = server.Description,
              !.version = server.Version, !.repository = server.Repository,
              !.author = server.Author, !.tags = tagsJSON]

\* The row after UPDATE servers SET name = ?, ... WHERE id = ?
UpdatedRow(r, server, tagsJSON) ==
    [r EXCEPT !.name = server.Name, !.description = server.Description,
              !.version = server.Version, !.repository = server.Repository,
              !.author = server.Author, !.tags = tagsJSON,
              !.is_active = IF server.IsActive THEN 1 ELSE 0]

\* Mutant: the UPDATE's RowsAffected is not looked at.
SqlUpdateExec_Blind(w) ==
    LET server == loc[w].server
        hit == RowsByID(table, server.ID)
    IN  /\ storageType = "sqlite"
        /\ pc[w] = "exec"
        /\ op[w] = "Update"
        /\ ret' = [ret EXCEPT ![w] = Returned(NoErr)]
        /\ table' = (table \ hit) \cup
                        {UpdatedRow(r, server, loc[w].tagsJSON) : r \in hit}
        /\ pc' = [pc EXCEPT ![w] = "done"]
        /\ UNCHANGED <<storageType, servers, writer, readers, heap, now, calls,
                       op, arg, loc, held>>

\* SQLiteStore.Update: the UPDATE, its error and its RowsAffected
SqlUpdateExec(w) ==
    LET server == loc[w].server
        hit == RowsByID(table, server.ID)
        clash == \E r \in table : r.id # server.ID /\ r.name = server.Name
    IN  /\ storageType = "sqlite"
        /\ pc[w] = "exec"
        /\ op[w] = "Update"
        /\ IF hit = {}
           THEN /\ ret' = [ret EXCEPT ![w] = Returned(ErrServerNotFound)]
                /\ table' = table
           ELSE IF clash
           THEN /\ ret' = [ret EXCEPT ![w] = Returned(WrappedErr("failed to update server"))]
                /\ table' = table
           ELSE /\ ret' = [ret EXCEPT ![w] = Returned(NoErr)]
                /\ table' = (table \ hit) \cup
                            {UpdatedRow(r, server, loc[w].tagsJSON) : r \in hit}
        /\ pc' = [pc EXCEPT ![w] = "done"]
        /\ UNCHANGED <<storageType, servers, writer, readers, heap, now, calls,
                       op, arg, loc, held>>

\* A call that is one statement: entry, statement and return in one step.
SqlCall(w, o, k, result) ==
    /\ storageType = "sqlite"
    /\ CanCall(w)
    /\ calls' = calls + 1
    /\ op' = [op EXCEPT ![w] = o]
    /\ arg' = [arg EXCEPT ![w] = [server |-> NilServer, key |-> k]]
    /\ held' = [held EXCEPT ![w] = NilServer]
    /\ loc' = [loc EXCEPT ![w] = NoLoc]
    /\ pc' = [pc EXCEPT ![w] = "done"]
    /\ ret' = [ret EXCEPT ![w] = result]
    /\ UNCHANGED <<storageType, servers, writer, readers, heap, now>>

\* SQLiteStore.Delete
SqlDeleteErr(t, id) ==
    IF id = "" THEN ErrInvalidID
    ELSE IF RowsByID(t, id) = {} THEN ErrServerNotFound
    ELSE NoErr

SqlDelete(w) ==
    \E id \in Keys :
        /\ SqlCall(w, "Delete", id, Returned(SqlDeleteErr(table, id)))
        /\ table' = IF id = "" THEN table ELSE table \ RowsByID(table, id)

SqlGetByID(w) ==
    \E id \in Keys :
        /\ SqlCall(w, "GetByID", id, SqlGetByIDResult(table, id))
        /\ table' = table

\* Position of a created_at text in the order the engine compares text in
StampRank(s) ==
    IF s = CallerStamp THEN 0 ELSE CHOOSE i \in 1..Len(Stamps) : Stamps[i] = s

\* The orders ORDER BY created_at DESC may yield for a set of rows
OrderByCreatedAtDesc(rows) ==
    {s \in Orderings(rows) :
        \A i, j \in 1..Len(s) :
            i < j => StampRank(s[i].created_at) >= StampRank(s[j].created_at)}

\* SQLiteStore.GetAll
SqlGetAllResults(t) ==
    {[NoRet EXCEPT !.servers = [i \in 1..Len(s) |-> scanServer(s[i])]] :
        s \in OrderByCreatedAtDesc(t)}

SqlGetAll(w) ==
    \E r \in SqlGetAllResults(table) :
        /\ SqlCall(w, "GetAll", "", r)
        /\ table' = table

\* The engine's LIKE: % matches any run of characters, _ any one character,
\* letters match without regard to case.
RECURSIVE Like(_, _)
Like(pattern, text) ==
    IF pattern = <<>> THEN text = <<>>
    ELSE IF Head(pattern) = "%"
         THEN \E k \in 0..Len(text) :
                  Like(Tail(pattern), SubSeq(text, k + 1, Len(text)))
    ELSE IF text = <<>> THEN FALSE
    ELSE /\ \/ Head(pattern) = "_"
            \/ LowerChar(Head(pattern)) = LowerChar(Head(text))
         /\ Like(Tail(pattern), Tail(text))

\* Mutant: Search without the early return for the empty query.
SqlSearchResults_NoEmptyCheck(t, nameQuery) ==
    LET searchPattern == <<"%">> \o ToLower(Chars(nameQuery)) \o <<"%">>
        rows == {r \in t : Like(searchPattern, Chars(r.name))}
    IN  {[NoRet EXCEPT !.servers = [i \in 1..Len(s) |-> scanServer(s[i])]] :
            s \in OrderByCreatedAtDesc(rows)}

\* SQLiteStore.Search
SqlSearchResults(t, nameQuery) ==
    IF nameQuery = "" THEN {NoRet}
    ELSE LET searchPattern == <<"%">> \o ToLower(Chars(nameQuery)) \o <<"%">>
             rows == {r \in t : Like(searchPattern, Chars(r.name))}
         IN  {[NoRet EXCEPT !.servers = [i \in 1..Len(s) |-> scanServer(s[i])]] :
                 s \in OrderByCreatedAtDesc(rows)}

SqlSearch(w) ==
    \E q \in Queries : \E r \in SqlSearchResults(table, q) :
        /\ SqlCall(w, "Search", q, r)
        /\ table' = table

\* SQLiteStore.Count
SqlCountResult(t) ==
    [NoRet EXCEPT !.total = Cardinality(t),
                  !.active = Cardinality({r \in t : r.is_active = 1})]

SqlCount(w) ==
    /\ SqlCall(w, "Count", "", SqlCountResult(table))
    /\ table' = table

----------------------------------------------------------------------------
(* What callers do with the records they hold once a call has returned *)

\* The records worker w holds: the one it passed, or the ones it was handed.
CallerRecords(w) ==
    IF pc[w] # "done" THEN {}
    ELSE IF op[w] \in {"Create", "Update"} THEN {arg[w].server}
    ELSE IF op[w] = "GetByID" /\ ret[w].err = NoErr THEN {ret[w].server}
    ELSE IF op[w] \in {"GetAll", "Search"} THEN Range(ret[w].servers)
    ELSE {}

\* The caller assigns to scalar fields of its copy of a record.
MutateField(w) ==
    /\ held[w] = NilServer
    /\ \E r \in CallerRecords(w) :
           held' = [held EXCEPT ![w] = [r EXCEPT !.Name = "changed",
                                                 !.IsActive = ~r.IsActive,
                                                 !.CreatedAt = "changed"]]
    /\ UNCHANGED <<storageType, servers, writer, readers, table, heap, now,
                   calls, pc, op, arg, ret, loc>>

\* The caller assigns to server.Tags[i] of a record it holds: a write to the
\* backing array the slice header points at.
MutateTags(w) ==
    /\ \E r \in CallerRecords(w) :
           \/ /\ r.Tags.kind = "ref"
              /\ \E i \in 1..Len(heap[r.Tags.addr]) :
                     /\ heap[r.Tags.addr][i] # "changed"
                     /\ heap' = [heap EXCEPT ![r.Tags.addr][i] = "changed"]
              /\ held' = held
           \/ /\ r.Tags.kind = "own"
              /\ held[w] = NilServer
              /\ \E i \in 1..Len(r.Tags.elems) :
                     held' = [held EXCEPT ![w] = [r EXCEPT !.Tags.elems[i] = "changed"]]
              /\ heap' = heap
    /\ UNCHANGED <<storageType, servers, writer, readers, table, now,
                   calls, pc, op, arg, ret, loc>>

----------------------------------------------------------------------------

Next ==
    \/ Tick
    \/ \E w \in Workers : CreateCall(w)
    \/ \E w \in Workers : UpdateCall(w)
    \/ \E w \in Workers : MemDeleteCall(w)
    \/ \E w \in Workers : MemGetByIDCall(w)
    \/ \E w \in Workers : MemGetAllCall(w)
    \/ \E w \in Workers : MemSearchCall(w)
    \/ \E w \in Workers : MemCountCall(w)
    \/ \E w \in Workers : Lock(w)
    \/ \E w \in Workers : RLock(w)
    \/ \E w \in Workers : MemCreate(w)
    \/ \E w \in Workers : MemUpdate(w)
    \/ \E w \in Workers : MemDelete(w)
    \/ \E w \in Workers : MemGetByID(w)
    \/ \E w \in Workers : MemGetAll(w)
    \/ \E w \in Workers : MemSearch(w)
    \/ \E w \in Workers : MemCount(w)
    \/ \E w \in Workers : SqlCreateCheck(w)
    \/ \E w \in Workers : SqlCreateInsert(w)
    \/ \E w \in Workers : SqlUpdateCheck(w)
    \/ \E w \in Workers : SqlUpdateExec(w)
    \/ \E w \in Workers : SqlDelete(w)
    \/ \E w \in Workers : SqlGetByID(w)
    \/ \E w \in Workers : SqlGetAll(w)
    \/ \E w \in Workers : SqlSearch(w)
    \/ \E w \in Workers : SqlCount(w)

Spec == Init /\ [][Next]_vars

\* The in-memory store alone, its goroutines scheduled fairly: a call that
\* has entered keeps taking its steps, the lock permitting.
MemInit == Init /\ storageType = "memory"

MemStep(w) ==
    \/ Lock(w) \/ RLock(w)
    \/ MemCreate(w) \/ MemUpdate(w) \/ MemDelete(w)
    \/ MemGetByID(w) \/ MemGetAll(w) \/ MemSearch(w) \/ MemCount(w)

MemNext ==
    \/ Tick
    \/ \E w \in Workers : CreateCall(w)
    \/ \E w \in Workers : UpdateCall(w)
    \/ \E w \in Workers : MemDeleteCall(w)
    \/ \E w \in Workers : MemGetByIDCall(w)
    \/ \E w \in Workers : MemGetAllCall(w)
    \/ \E w \in Workers : MemSearchCall(w)
    \/ \E w \in Workers : MemCountCall(w)
    \/ \E w \in Workers : MemStep(w)

FairSpec == MemInit /\ [][MemNext]_vars /\ \A w \in Workers : WF_vars(MemStep(w))

\* The store together with callers that write to the records they hold.
CallerNext ==
    \/ Next
    \/ \E w \in Workers : MutateField(w)
    \/ \E w \in Workers : MutateTags(w)

CallerSpec == Init /\ [][CallerNext]_vars

----------------------------------------------------------------------------
(* The two stores side by side: one client drives a MemoryStore, another a
   SQLiteStore, both starting empty, and each call is made on both, one
   whole call after another. *)

MemClient == "w1"
SqlClient == "w2"

\* MemoryStore.Create as one call: the error and the map it leaves
MemCreateOutcome(m, server, t) ==
    IF ValidateServer(server) # NoErr
    THEN [err |-> ValidateServer(server), servers |-> m]
    ELSE [err |-> MemCreateErr(m, server), servers |-> MemCreateMap(m, server, t)]

\* MemoryStore.Update as one call
MemUpdateOutcome(m, server) ==
    IF ValidateServer(server) # NoErr
    THEN [err |-> ValidateServer(server), servers |-> m]
    ELSE IF server.ID \notin DOMAIN m
    THEN [err |-> ErrServerNotFound, servers |-> m]
    ELSE [err |-> NoErr,
          servers |-> MapPut(m, server.ID, MemUpdateStored(server, m[server.ID]))]

\* MemoryStore.Delete as one call
MemDeleteOutcome(m, id) ==
    IF id = "" THEN [err |-> ErrInvalidID, servers |-> m]
    ELSE [err |-> MemDeleteErr(m, id),
          servers |-> IF id \notin DOMAIN m THEN m ELSE MapDelete(m, id)]

\* SQLiteStore.Create as one call: the error and the table it leaves
SqlCreateOutcome(t, h, server, time) ==
    LET stamped == IF server.CreatedAt = ""
                   THEN [server EXCEPT !.CreatedAt = RFC3339(time)] ELSE server
        row == InsertRow(stamped, Marshal(h, server.Tags))
    IN  IF ValidateServer(server) # NoErr
        THEN [err |-> ValidateServer(server), table |-> t]
        ELSE IF SqlGetByIDResult(t, server.ID).err = NoErr
        THEN [err |-> ErrServerExists, table |-> t]
        ELSE [err |-> InsertErr(UniqueViolation(t, row)),
              table |-> IF UniqueViolation(t, row) THEN t ELSE t \cup {row}]

\* SQLiteStore.Update as one call
SqlUpdateOutcome(t, h, server) ==
    LET found == SqlGetByIDResult(t, server.ID)
        hit == RowsByID(t, server.ID)
        clash == \E r \in t : r.id # server.ID /\ r.name = server.Name
    IN  IF ValidateServer(server) # NoErr
        THEN [err |-> ValidateServer(server), table |-> t]
        ELSE IF found.err # NoErr
        THEN [err |-> found.err, table |-> t]
        ELSE IF clash
        THEN [err |-> WrappedErr("failed to update server"), table |-> t]
        ELSE [err |-> NoErr,
              table |-> (t \ hit) \cup
                        {UpdatedRow(r, server, Marshal(h, server.Tags)) : r \in hit}]

\* One call made on both stores; both clients get their store's answer.
PairStep(o, a, memRet, sqlRet) ==
    /\ storageType = "both"
    /\ calls < MaxCalls
    /\ calls' = calls + 1
    /\ op' = [w \in Workers |-> o]
    /\ arg' = [w \in Workers |-> a]
    /\ ret' = [w \in Workers |-> IF w = MemClient THEN memRet ELSE sqlRet]
    /\ pc' = [w \in Workers |-> "done"]
    /\ UNCHANGED <<storageType, writer, readers, now, loc, held>>

PairWrite(o, t) ==
    LET server == Materialize(t, calls + 1)
        h == [heap EXCEPT ![calls + 1] = t.Tags]
        mem == IF o = "Create" THEN MemCreateOutcome(servers, server, now)
               ELSE MemUpdateOutcome(servers, server)
        sql == IF o = "Create" THEN SqlCreateOutcome(table, h, server, now)
               ELSE SqlUpdateOutcome(table, h, server)
    IN  /\ PairStep(o, [server |-> server, key |-> ""],
                    Returned(mem.err), Returned(sql.err))
        /\ heap' = h
        /\ servers' = mem.servers
        /\ table' = sql.table

PairCreate == \E t \in Inputs : PairWrite("Create", t)

PairUpdate == \E t \in Inputs : PairWrite("Update", t)

PairDelete ==
    \E id \in Keys :
        /\ PairStep("Delete", [server |-> NilServer, key |-> id],
                    Returned(MemDeleteOutcome(servers, id).err),
                    Returned(SqlDeleteErr(table, id)))
        /\ servers' = MemDeleteOutcome(servers, id).servers
        /\ table' = IF id = "" THEN table ELSE table \ RowsByID(table, id)
        /\ heap' = heap

PairGetByID ==
    \E id \in Keys :
        /\ PairStep("GetByID", [server |-> NilServer, key |-> id],
                    IF id = "" THEN Returned(ErrInvalidID)
                    ELSE MemGetByIDResult(servers, id),
                    SqlGetByIDResult(table, id))
        /\ UNCHANGED <<servers, table, heap>>

PairSearch ==
    \E q \in WildcardQueries :
        \E rm \in IF q = "" THEN {NoRet} ELSE MemSearchResults(servers, q) :
            \E rs \in SqlSearchResults(table, q) :
                /\ PairStep("Search", [server |-> NilServer, key |-> q], rm, rs)
                /\ UNCHANGED <<servers, table, heap>>

PairCount ==
    /\ PairStep("Count", NoArg, MemCountResult(servers), SqlCountResult(table))
    /\ UNCHANGED <<servers, table, heap>>

PairInit ==
    /\ storageType = "both"
    /\ servers = <<>>
    /\ writer = NoWorker
    /\ readers = {}
    /\ table = {}
    /\ heap = [a \in 1..MaxCalls |-> <<>>]
    /\ now = 0
    /\ calls = 0
    /\ pc = [w \in Workers |-> "idle"]
    /\ op = [w \in Workers |-> "none"]
    /\ arg = [w \in Workers |-> NoArg]
    /\ ret = [w \in Workers |-> NoRet]
    /\ loc = [w \in Workers |-> NoLoc]
    /\ held = [w \in Workers |-> NilServer]

PairNext ==
    \/ PairCreate
    \/ PairUpdate
    \/ PairDelete
    \/ PairGetByID
    \/ PairSearch
    \/ PairCount

PairSpec == PairInit /\ [][PairNext]_vars

----------------------------------------------------------------------------
(* models.ValidateServer on its own: callers validate records of every
   shape, no store involved. *)

ValidateInputs ==
    {Server(id, name, description, version, "", "", NilSlice, isActive, "") :
        id \in {"", "a"}, name \in {"", "Web"}, description \in {"", "first"},
        version \in {"", "1.0"}, isActive \in BOOLEAN}

Validate(w) ==
    \E server \in ValidateInputs :
        /\ storageType = "none"
        /\ CanCall(w)
        /\ calls' = calls + 1
        /\ op' = [op EXCEPT ![w] = "ValidateServer"]
        /\ arg' = [arg EXCEPT ![w] = [server |-> server, key |-> ""]]
        /\ ret' = [ret EXCEPT ![w] = Returned(ValidateServer(server))]
        /\ pc' = [pc EXCEPT ![w] = "done"]
        /\ UNCHANGED <<storageType, servers, writer, readers, table, heap, now,
                       loc, held>>

ValidateInit ==
    /\ storageType = "none"
    /\ servers = <<>>
    /\ writer = NoWorker
    /\ readers = {}
    /\ table = {}
    /\ heap = [a \in 1..MaxCalls |-> <<>>]
    /\ now = 0
    /\ calls = 0
    /\ pc = [w \in Workers |-> "idle"]
    /\ op = [w \in Workers |-> "none"]
    /\ arg = [w \in Workers |-> NoArg]
    /\ ret = [w \in Workers |-> NoRet]
    /\ loc = [w \in Workers |-> NoLoc]
    /\ held = [w \in Workers |-> NilServer]

ValidateNext == \E w \in Workers : Validate(w)

ValidateSpec == ValidateInit /\ [][ValidateNext]_vars

----------------------------------------------------------------------------
(* The HTTP handler of POST /servers in front of either store: each request
   is decoded, handed to the store's Create and answered, one whole request
   after another. *)

\* JSON objects a client posts, as the members they carry
Doc(id, p) ==
    CASE p = 1 -> [id |-> id, name |-> "Web", version |-> "1.0"]
      [] p = 2 -> [id |-> id, name |-> "Web", version |-> "1.0", is_active |-> TRUE]
      [] p = 3 -> [id |-> id, name |-> "web-db", description |-> "second",
                   version |-> "2.0", tags |-> <<"t1">>, is_active |-> FALSE,
                   created_at |-> CallerStamp]
      [] OTHER -> [name |-> "Web"]

Docs == {Doc("a", 1), Doc("b", 2), Doc("a", 3), Doc("", 4)}

\* Request bodies: a JSON object, one of them with more bytes after it, a
\* JSON array, or text that is no JSON at all.
Bodies ==
    {[kind |-> "object", doc |-> d, trailing |-> FALSE] : d \in Docs}
        \cup {[kind |-> "object", doc |-> Doc("a", 1), trailing |-> TRUE]}
        \cup {[kind |-> k, doc |-> <<>>, trailing |-> FALSE] : k \in {"array", "malformed"}}

\* A member of a JSON object, or the zero value the struct field keeps
Member(doc, key, zero) == IF key \in DOMAIN doc THEN doc[key] ELSE zero

\* json.NewDecoder(r.Body).Decode(&server) into a zero models.Server: it
\* reads the first JSON value of the body and nothing after it.
Decode(body) ==
    [err |-> body.kind # "object",
     server |->
        IF body.kind # "object" THEN NilServer
        ELSE Server(Member(body.doc, "id", ""), Member(body.doc, "name", ""),
                    Member(body.doc, "description", ""),
                    Member(body.doc, "version", ""),
                    Member(body.doc, "repository", ""),
                    Member(body.doc, "author", ""),
                    IF "tags" \in DOMAIN body.doc THEN OwnSlice(body.doc.tags)
                    ELSE NilSlice,
                    Member(body.doc, "is_active", FALSE),
                    Member(body.doc, "created_at", ""))]

\* What the database engine does with the statements of one call
Engines == {"ok", "query error", "exec error"}

\* SQLiteStore.Create as one call on an engine that may fail
SqlCreateOn(engine, t, h, server, time) ==
    IF ValidateServer(server) # NoErr \/ engine = "ok"
    THEN SqlCreateOutcome(t, h, server, time)
    ELSE IF engine = "query error"
    THEN [err |-> WrappedErr("failed to check existing server"), table |-> t]
    ELSE IF SqlGetByIDResult(t, server.ID).err = NoErr
    THEN [err |-> ErrServerExists, table |-> t]
    ELSE [err |-> WrappedErr("failed to insert server"), table |-> t]

\* err.Error(), as words
ErrorWords(err) ==
    CASE err = ErrServerExists -> <<"server", "already", "exists">>
      [] err = ErrServerNotFound -> <<"server", "not", "found">>
      [] err = ErrInvalidID -> <<"invalid", "server", "ID">>
      [] err.kind = "validation failed" -> ValidationErrorsText(err.fields)
      [] OTHER -> <<err.kind, ":", "engine", "failure">>

\* Mutant: an existing record is answered like any other failure.
CreateStatus_NoConflict(err) ==
    IF err = NoErr THEN "StatusCreated"
    ELSE IF err.kind = "validation failed" THEN "StatusBadRequest"
    ELSE "StatusInternalServerError"

\* handleCreateServer: the status for the error Create returned
CreateStatus(err) ==
    IF err = NoErr THEN "StatusCreated"
    ELSE IF err.kind = "validation failed" THEN "StatusBadRequest"
    ELSE IF Contains(ErrorWords(err), <<"already", "exists">>) THEN "StatusConflict"
    ELSE "StatusInternalServerError"

\* The response of a handler: status, the error behind it, the record
\* written as the body, and whether the store's Create was called.
Response(status, err, server, called) ==
    [status |-> status, err |-> err, server |-> server, called |-> called]

\* handleCreateServer, on any of the given request bodies
PostServersFrom(w, bodies) ==
    \E body \in bodies :
      \E engine \in IF storageType = "sqlite" THEN Engines ELSE {"ok"} :
        LET d == Decode(body)
            mem == MemCreateOutcome(servers, d.server, now)
            sql == SqlCreateOn(engine, table, heap, d.server, now)
            err == IF storageType = "memory" THEN mem.err ELSE sql.err
        IN  /\ storageType \in {"memory", "sqlite"}
            /\ CanCall(w)
            /\ calls' = calls + 1
            /\ op' = [op EXCEPT ![w] = "POST /servers"]
            /\ arg' = [arg EXCEPT ![w] = [server |-> d.server, key |-> "", body |-> body]]
            /\ pc' = [pc EXCEPT ![w] = "done"]
            /\ IF d.err
               THEN /\ ret' = [ret EXCEPT ![w] =
                                  Response("StatusBadRequest", NoErr, NilServer, FALSE)]
                    /\ UNCHANGED <<servers, table>>
               ELSE /\ ret' = [ret EXCEPT ![w] =
                                  Response(CreateStatus(err), err,
                                           IF err = NoErr THEN d.server ELSE NilServer,
                                           TRUE)]
                    /\ servers' = IF storageType = "memory" THEN mem.servers ELSE servers
                    /\ table' = IF storageType = "sqlite" THEN sql.table ELSE table
            /\ UNCHANGED <<storageType, writer, readers, heap, now, loc, held>>

\* handleCreateServer
PostServers(w) == PostServersFrom(w, Bodies)

HandlerNext ==
    \/ \E w \in Workers : PostServers(w)
    \/ Tick

HandlerSpec == Init /\ [][HandlerNext]_vars

----------------------------------------------------------------------------
(* SQLiteStore on an engine that may fail or take its time: a call enters,
   its statements wait for the engine, and the engine's answer, whenever it
   comes, decides what the call returns. *)

StoreOps == {"GetAll", "GetByID", "Search", "Count", "Create", "Update", "Delete"}

\* Where the engine may report an error during an operation
FaultsOf(o) ==
    CASE o \in {"GetAll", "Search"} ->
             {"ok", "query error", "scan error", "iteration error"}
      [] o \in {"GetByID", "Count"} -> {"ok", "scan error"}
      [] o \in {"Create", "Update"} -> Engines
      [] OTHER -> {"ok", "exec error"}

\* The rows a loop over rows.Next() has appended when the iteration stops
Prefixes(s) == {SubSeq(s, 1, k) : k \in 0..Len(s)}

\* Whether the operation reaches the engine: not for an empty id, an empty
\* query or a record that fails validation
ReachesEngine(o, a) ==
    CASE o \in {"GetByID", "Delete", "Search"} -> a.key # ""
      [] o \in {"Create", "Update"} -> ValidateServer(a.server) = NoErr
      [] OTHER -> TRUE

\* GetAll, GetByID, Search and Count: what the call may return
SqlReadAnswers(o, key, fault, t) ==
    CASE o = "GetAll" ->
             IF fault = "ok" THEN SqlGetAllResults(t)
             ELSE IF fault = "query error"
             THEN {Returned(WrappedErr("failed to query servers"))}
             ELSE IF fault = "scan error"
             THEN {Returned(WrappedErr("failed to scan server"))}
             ELSE {Returned(WrappedErr("error iterating rows"))}
      [] o = "GetByID" ->
             IF fault = "ok" \/ key = "" THEN {SqlGetByIDResult(t, key)}
             ELSE {Returned(WrappedErr("failed to get server by ID"))}
      [] o = "Search" ->
             IF fault = "ok" \/ key = "" THEN SqlSearchResults(t, key)
             ELSE IF fault = "query error"
             THEN {Returned(WrappedErr("failed to search servers"))}
             ELSE IF fault = "scan error"
             THEN {Returned(WrappedErr("failed to scan server"))}
             ELSE {[NoRet EXCEPT !.servers = p] :
                      p \in UNION {Prefixes(r.servers) : r \in SqlSearchResults(t, key)}}
      [] OTHER ->
             IF fault = "ok" THEN {SqlCountResult(t)}
             ELSE {Returned(WrappedErr("failed to get server count"))}

\* Create, Update and Delete: the error returned and the table left
SqlWriteAnswer(o, a, fault, t, h, time) ==
    CASE o = "Create" -> SqlCreateOn(fault, t, h, a.server, time)
      [] o = "Update" ->
             IF ValidateServer(a.server) # NoErr \/ fault = "ok"
             THEN SqlUpdateOutcome(t, h, a.server)
             ELSE IF fault = "query error"
             THEN [err |-> WrappedErr("failed to get server by ID"), table |-> t]
             ELSE IF SqlGetByIDResult(t, a.server.ID).err # NoErr
             THEN [err |-> SqlGetByIDResult(t, a.server.ID).err, table |-> t]
             ELSE [err |-> WrappedErr("failed to update server"), table |-> t]
      [] OTHER ->
             IF fault = "ok" \/ a.key = ""
             THEN [err |-> SqlDeleteErr(t, a.key),
                   table |-> IF a.key = "" THEN t ELSE t \ RowsByID(t, a.key)]
             ELSE [err |-> WrappedErr("failed to delete server"), table |-> t]

\* Every answer of operation o on arguments a under the given fault
SqlAnswers(o, a, fault, t, h, time) ==
    IF o \in {"Create", "Update", "Delete"}
    THEN {[ret |-> Returned(SqlWriteAnswer(o, a, fault, t, h, time).err),
           table |-> SqlWriteAnswer(o, a, fault, t, h, time).table]}
    ELSE {[ret |-> r, table |-> t] : r \in SqlReadAnswers(o, a.key, fault, t)}

\* Arguments of the calls
StoreArgs(o) ==
    CASE o \in {"Create", "Update"} ->
             {[server |-> [t EXCEPT !.Tags = IF t.Tags = <<>> THEN NilSlice
                                              ELSE OwnSlice(t.Tags)],
               key |-> ""] : t \in Inputs}
      [] o \in {"GetByID", "Delete"} -> {[server |-> NilServer, key |-> k] : k \in Keys}
      [] o = "Search" -> {[server |-> NilServer, key |-> q] : q \in Queries}
      [] OTHER -> {NoArg}

\* What a call keeps while it runs: when it entered, and what the engine did
Pending(entered, fault) ==
    [server |-> NilServer, tagsJSON |-> <<>>, entered |-> entered, fault |-> fault]

\* A call enters; one that does not reach the engine returns at once.
StoreCall(w) ==
    \E o \in StoreOps : \E a \in StoreArgs(o) :
        /\ storageType = "sqlite"
        /\ CanCall(w)
        /\ calls' = calls + 1
        /\ op' = [op EXCEPT ![w] = o]
        /\ arg' = [arg EXCEPT ![w] = a]
        /\ loc' = [loc EXCEPT ![w] = Pending(now, "ok")]
        /\ IF ReachesEngine(o, a)
           THEN /\ pc' = [pc EXCEPT ![w] = "engine"]
                /\ ret' = [ret EXCEPT ![w] = NoRet]
           ELSE /\ pc' = [pc EXCEPT ![w] = "done"]
                /\ \E ans \in SqlAnswers(o, a, "ok", table, heap, now) :
                       ret' = [ret EXCEPT ![w] = ans.ret]
        /\ UNCHANGED <<storageType, servers, writer, readers, table, heap, now, held>>

\* The engine answers the statements of a waiting call and the call returns.
EngineAnswers(w) ==
    \E fault \in FaultsOf(op[w]) :
        \E ans \in SqlAnswers(op[w], arg[w], fault, table, heap, now) :
            /\ storageType = "sqlite"
            /\ pc[w] = "engine"
            /\ pc' = [pc EXCEPT ![w] = "done"]
            /\ ret' = [ret EXCEPT ![w] = ans.ret]
            /\ table' = ans.table
            /\ loc' = [loc EXCEPT ![w] = Pending(loc[w].entered, fault)]
            /\ UNCHANGED <<storageType, servers, writer, readers, heap, now, calls,
                           op, arg, held>>

FaultInit == Init /\ storageType = "sqlite"

FaultNext ==
    \/ \E w \in Workers : StoreCall(w)
    \/ \E w \in Workers : EngineAnswers(w)
    \/ Tick

FaultSpec == FaultInit /\ [][FaultNext]_vars

----------------------------------------------------------------------------
(* The seed loader: InitWithSampleData on either store, as one call, on a
   store that earlier calls may have filled. *)

\* Repository URLs of seed entries, as the pieces strings.Split and
\* strings.Contains see: path segments and the separators between them
URLPieces(u) ==
    CASE u = "https://github.com/acme/web" ->
             <<"https:", "/", "/", "github.com", "/", "acme", "/", "web">>
      [] u = "github.com/acme/web" -> <<"github.com", "/", "acme", "/", "web">>
      [] u = "https://github.com/" -> <<"https:", "/", "/", "github.com", "/">>
      [] OTHER -> <<>>

\* strings.Split(s, "/") on the pieces of s, from piece i on, cur being the
\* part read so far
RECURSIVE SplitFrom(_, _, _)
SplitFrom(s, i, cur) ==
    IF i > Len(s) THEN <<cur>>
    ELSE IF s[i] = "/" THEN <<cur>> \o SplitFrom(s, i + 1, "")
    ELSE SplitFrom(s, i + 1, s[i])

Split(s) == SplitFrom(s, 1, "")

\* extractAuthorFromRepoURL
extractAuthorFromRepoURL(repoURL) ==
    IF Contains(URLPieces(repoURL), <<"github.com", "/">>)
          /\ Len(Split(URLPieces(repoURL))) >= 4
    THEN Split(URLPieces(repoURL))[4]
    ELSE "Unknown"

\* loadFromJSONFile: the tags built for an entry with these packages
SeedTags(packages) ==
    SelectSeq(packages, LAMBDA r : r # "" /\ r # "unknown") \o <<"mcp", "server">>

\* Entries of a seed file (JSONServer), packages by their registry_name
JSONServer(id, name, version, url, packages) ==
    [id |-> id, name |-> name, version |-> version, url |-> url, packages |-> packages]

SeedEntries ==
    {JSONServer("a", "Web", "1.0", "https://github.com/acme/web", <<"npm", "npm">>),
     JSONServer("b", "web-db", "2.0", "https://github.com/", <<"", "unknown", "pypi">>),
     JSONServer("", "Web", "1.0", "github.com/acme/web", <<>>)}

MaxEntries == 2

\* What the loader finds at the path of the seed file
Datasets ==
    {[file |-> f, entries |-> <<>>] : f \in {"missing", "unreadable", "unparsable"}}
        \cup {[file |-> "list", entries |-> es] :
                 es \in UNION {[1..n -> SeedEntries] : n \in 0..MaxEntries}}

\* loadFromJSONFile: the record built from an entry
SeedRecord(e, t) ==
    Server(e.id, e.name, "", e.version, e.url, extractAuthorFromRepoURL(e.url),
           OwnSlice(SeedTags(e.packages)), TRUE, RFC3339(t))

\* loadFallbackSampleData: the built-in records of each store
FallbackRecords(st, t) ==
    IF st = "memory"
    THEN <<Server("1", "filesystem-server", "A server for accessing local filesystem",
                  "1.0.0", "https://github.com/example/filesystem-server", "Jane Doe",
                  OwnSlice(<<"filesystem", "local", "files">>), TRUE, RFC3339(t)),
           Server("2", "web-scraper-server", "A server for web scraping operations",
                  "2.1.0", "https://github.com/example/web-scraper", "John Smith",
                  OwnSlice(<<"web", "scraping", "http">>), TRUE, RFC3339(t)),
           Server("3", "database-server", "A server for database operations",
                  "1.5.2", "https://github.com/example/database-server",
                  "Alice Johnson", OwnSlice(<<"database", "sql", "storage">>),
                  FALSE, RFC3339(t))>>
    ELSE <<Server("1", "filesystem-server", "A server for accessing local filesystem",
                  "1.0.0", "https://github.com/example/filesystem-server", "Jane Doe",
                  OwnSlice(<<"filesystem", "local", "files">>), TRUE, "")>>

\* Create on the store of kind st, whose content is db = [servers, table]
StoreCreate(st, db, h, server, t) ==
    IF st = "memory"
    THEN [err |-> MemCreateOutcome(db.servers, server, t).err,
          db |-> [db EXCEPT !.servers = MemCreateOutcome(db.servers, server, t).servers]]
    ELSE [err |-> SqlCreateOutcome(db.table, h, server, t).err,
          db |-> [db EXCEPT !.table = SqlCreateOutcome(db.table, h, server, t).table]]

\* The loop "for _, server := range records { Create(server) }" from record i
\* on; abort tells whether the loop returns at the first error. It yields
\* the store left, the records Create was called with and the errors it gave.
RECURSIVE CreateEach(_, _, _, _, _, _, _)
CreateEach(st, db, h, records, i, abort, t) ==
    IF i > Len(records) THEN [db |-> db, attempted |-> <<>>, errs |-> <<>>]
    ELSE LET r == StoreCreate(st, db, h, records[i], t)
             rest == CreateEach(st, r.db, h, records, i + 1, abort, t)
         IN  IF abort /\ r.err # NoErr
             THEN [db |-> r.db, attempted |-> <<records[i]>>, errs |-> <<r.err>>]
             ELSE [db |-> rest.db, attempted |-> <<records[i]>> \o rest.attempted,
                   errs |-> <<r.err>> \o rest.errs]

\* The result of a seeding call
Seeded(err, path, run) ==
    [err |-> err, path |-> path, attempted |-> run.attempted, errs |-> run.errs]

\* loadFallbackSampleData
loadFallbackSampleData(st, db, h, t) ==
    LET run == CreateEach(st, db, h, FallbackRecords(st, t), 1, TRUE, t)
        last == IF run.errs = <<>> THEN NoErr ELSE run.errs[Len(run.errs)]
    IN  [db |-> run.db,
         ret |-> Seeded(IF last = NoErr \/ st = "memory" THEN last
                        ELSE WrappedErr("failed to create sample server"),
                        "fallback", run)]

\* loadFromJSONFile
loadFromJSONFile(st, db, h, dataset, t) ==
    IF dataset.file # "list" THEN loadFallbackSampleData(st, db, h, t)
    ELSE LET records == [i \in 1..Len(dataset.entries) |->
                            SeedRecord(dataset.entries[i], t)]
             run == CreateEach(st, db, h, records, 1, FALSE, t)
         IN  [db |-> run.db, ret |-> Seeded(NoErr, "import", run)]

\* Mutant: the SQLite store seeds whatever it holds.
SeedSkipped_Never(st, db) == FALSE

\* SQLiteStore.InitWithSampleData: data already exists
SeedSkipped(st, db) == st = "sqlite" /\ SqlCountResult(db.table).total > 0

\* InitWithSampleData of either store
InitWithSampleData(st, db, h, dataset, t) ==
    IF SeedSkipped(st, db)
    THEN [db |-> db,
          ret |-> Seeded(NoErr, "skipped", [attempted |-> <<>>, errs |-> <<>>])]
    ELSE loadFromJSONFile(st, db, h, dataset, t)

\* The goroutine that sets the store up (main)
SeedCaller == "w1"

\* A call of InitWithSampleData
Seed(w) ==
    \E dataset \in Datasets :
        LET r == InitWithSampleData(storageType, [servers |-> servers, table |-> table],
                                    heap, dataset, now)
        IN  /\ storageType \in {"memory", "sqlite"}
            /\ w = SeedCaller
            /\ CanCall(w)
            /\ calls' = calls + 1
            /\ op' = [op EXCEPT ![w] = "InitWithSampleData"]
            /\ arg' = [arg EXCEPT ![w] = [server |-> NilServer, key |-> "",
                                          dataset |-> dataset]]
            /\ ret' = [ret EXCEPT ![w] = r.ret]
            /\ servers' = r.db.servers
            /\ table' = r.db.table
            /\ pc' = [pc EXCEPT ![w] = "done"]
            /\ UNCHANGED <<storageType, writer, readers, heap, now, loc, held>>

\* A Create made on the store around the seeding calls
SeedClient(w) ==
    \E server \in {FallbackRecords("memory", now)[2],
                    SeedRecord(JSONServer("a", "Web", "1.0", "", <<>>), now)} :
        LET r == StoreCreate(storageType, [servers |-> servers, table |-> table],
                             heap, server, now)
        IN  /\ storageType \in {"memory", "sqlite"}
            /\ CanCall(w)
            /\ calls' = calls + 1
            /\ op' = [op EXCEPT ![w] = "Create"]
            /\ arg' = [arg EXCEPT ![w] = [server |-> server, key |-> ""]]
            /\ ret' = [ret EXCEPT ![w] = Returned(r.err)]
            /\ servers' = r.db.servers
            /\ table' = r.db.table
            /\ pc' = [pc EXCEPT ![w] = "done"]
            /\ UNCHANGED <<storageType, writer, readers, heap, now, loc, held>>

SeedNext ==
    \/ \E w \in Workers : Seed(w)
    \/ \E w \in Workers : SeedClient(w)
    \/ Tick

SeedSpec == Init /\ [][SeedNext]_vars

----------------------------------------------------------------------------
(* The routed API: the ServeMux of setupRoutes picks a handler by the path
   of the request, the handler answers from either store.  A path is the
   sequence of its separators and segments. *)

Path(segments) == <<"/">> \o segments

\* The patterns registered with mux.HandleFunc, and their handlers
Routes ==
    {[pattern |-> Path(<<"health">>), handler |-> "HealthHandler"],
     [pattern |-> Path(<<"servers">>), handler |-> "ServersHandler"],
     [pattern |-> Path(<<"servers", "/">>), handler |-> "ServerDetailHandler"],
     [pattern |-> Path(<<"servers", "/", "count">>), handler |-> "CountHandler"],
     [pattern |-> Path(<<"servers", "/", "search">>), handler |-> "SearchHandler"]}

\* strings.HasPrefix
HasPrefix(s, prefix) ==
    Len(prefix) <= Len(s) /\ SubSeq(s, 1, Len(prefix)) = prefix

\* strings.TrimPrefix of a prefix the string has: the segment left, or ""
TrimPrefix(s, prefix) ==
    IF Len(s) = Len(prefix) THEN "" ELSE s[Len(prefix) + 1]

\* http.ServeMux: a pattern ending in "/" matches every path below it, any
\* other pattern matches its own path only.
Matches(pattern, path) ==
    IF pattern[Len(pattern)] = "/" THEN HasPrefix(path, pattern) ELSE pattern = path

\* http.ServeMux: the longest matching pattern wins, no match is a 404
Route(path) ==
    IF \E r \in Routes : Matches(r.pattern, path)
    THEN (CHOOSE r \in Routes :
              /\ Matches(r.pattern, path)
              /\ \A q \in Routes : Matches(q.pattern, path) => Len(q.pattern) <= Len(r.pattern)).handler
    ELSE "NotFoundHandler"

\* extractIDFromPath
extractIDFromPath(path, prefix) ==
    IF ~HasPrefix(path, prefix) THEN "" ELSE TrimPrefix(path, prefix)

\* Ids of the records clients create through the API
ApiIDs == {"a", "count", "search"}

ApiBodies ==
    {[kind |-> "object", doc |-> d, trailing |-> FALSE] :
        d \in {Doc("a", 1), Doc("count", 3), Doc("search", 2)}}

Request(method, path, name) == [method |-> method, path |-> path, name |-> name]

\* The requests other than POST /servers: a method, a path and the query
\* parameter name
Requests ==
    {Request(m, Path(p), "") :
        m \in {"GET", "DELETE"},
        p \in {<<"servers", "/">>, <<"servers", "/", "a">>, <<"servers", "/", "count">>,
               <<"servers", "/", "search">>, <<"servers">>, <<"health">>, <<"metrics">>}}
        \cup {Request("GET", Path(<<"servers", "/", "search">>), "WEB")}

\* What a read of the store may return, the engine failing or not
StoreAnswers(o, key) ==
    IF storageType = "sqlite"
    THEN UNION {{[fault |-> f, result |-> r] : r \in SqlReadAnswers(o, key, f, table)} :
                   f \in FaultsOf(o)}
    ELSE {[fault |-> "ok", result |-> r] :
             r \in CASE o = "GetByID" -> {MemGetByIDResult(servers, key)}
                     [] o = "GetAll" -> MemGetAllResults(servers)
                     [] o = "Search" -> MemSearchResults(servers, key)
                     [] OTHER -> {MemCountResult(servers)}}

\* What a handler wrote: its status and, from the store's answer when the
\* store was called, what the body is made of
Reply(handler, status, answer, called) ==
    [handler |-> handler, status |-> status, called |-> called,
     fault |-> answer.fault, result |-> answer.result]

NoAnswer == [fault |-> "ok", result |-> NoRet]

\* Mutant: a missing record is answered like any other failure.
DetailStatus_NoNotFound(err) ==
    IF err = NoErr THEN "StatusOK" ELSE "StatusInternalServerError"

\* ServerDetailHandler: the status for what GetByID returned
DetailStatus(err) ==
    IF err = NoErr THEN "StatusOK"
    ELSE IF Contains(ErrorWords(err), <<"not", "found">>) THEN "StatusNotFound"
    ELSE "StatusInternalServerError"

\* The status of a handler that answers every store error alike
ReadStatus(err) == IF err = NoErr THEN "StatusOK" ELSE "StatusInternalServerError"

ServerDetailHandler(r) ==
    LET id == extractIDFromPath(r.path, Path(<<"servers", "/">>))
    IN  IF r.method # "GET"
        THEN {Reply("ServerDetailHandler", "StatusMethodNotAllowed", NoAnswer, FALSE)}
        ELSE IF id = ""
        THEN {Reply("ServerDetailHandler", "StatusBadRequest", NoAnswer, FALSE)}
        ELSE {Reply("ServerDetailHandler", DetailStatus(a.result.err), a, TRUE) :
                 a \in StoreAnswers("GetByID", id)}

CountHandler(r) ==
    IF r.method # "GET"
    THEN {Reply("CountHandler", "StatusMethodNotAllowed", NoAnswer, FALSE)}
    ELSE {Reply("CountHandler", ReadStatus(a.result.err), a, TRUE) :
             a \in StoreAnswers("Count", "")}

SearchHandler(r) ==
    IF r.method # "GET"
    THEN {Reply("SearchHandler", "StatusMethodNotAllowed", NoAnswer, FALSE)}
    ELSE IF r.name = ""
    THEN {Reply("SearchHandler", "StatusBadRequest", NoAnswer, FALSE)}
    ELSE {Reply("SearchHandler", ReadStatus(a.result.err), a, TRUE) :
             a \in StoreAnswers("Search", r.name)}

\* ServersHandler on a request that is no POST
ServersHandler(r) ==
    IF r.method # "GET"
    THEN {Reply("ServersHandler", "StatusMethodNotAllowed", NoAnswer, FALSE)}
    ELSE {Reply("ServersHandler", ReadStatus(a.result.err), a, TRUE) :
             a \in StoreAnswers("GetAll", "")}

HealthHandler(r) ==
    {Reply("HealthHandler",
           IF r.method # "GET" THEN "StatusMethodNotAllowed" ELSE "StatusOK",
           NoAnswer, FALSE)}

\* The handler the mux dispatches the request to, and what it writes
Dispatch(r) ==
    CASE Route(r.path) = "ServerDetailHandler" -> ServerDetailHandler(r)
      [] Route(r.path) = "CountHandler" -> CountHandler(r)
      [] Route(r.path) = "SearchHandler" -> SearchHandler(r)
      [] Route(r.path) = "ServersHandler" -> ServersHandler(r)
      [] Route(r.path) = "HealthHandler" -> HealthHandler(r)
      [] OTHER -> {Reply("NotFoundHandler", "StatusNotFound", NoAnswer, FALSE)}

\* One request that reads: routed, handled and answered
Serve(w) ==
    /\ CanCall(w)
    /\ calls' = calls + 1
    /\ op' = [op EXCEPT ![w] = "Serve"]
    /\ pc' = [pc EXCEPT ![w] = "done"]
    /\ \E r \in Requests :
          /\ arg' = [arg EXCEPT ![w] = [server |-> NilServer, key |-> "", body |-> r]]
          /\ \E reply \in Dispatch(r) : ret' = [ret EXCEPT ![w] = reply]
    /\ UNCHANGED <<storageType, servers, writer, readers, table, heap, now, loc, held>>

\* POST /servers, which the mux dispatches to ServersHandler and that to
\* handleCreateServer
ApiPost(w) == PostServersFrom(w, ApiBodies)

ApiNext ==
    \/ \E w \in Workers : ApiPost(w)
    \/ \E w \in Workers : Serve(w)
    \/ Tick

ApiSpec == Init /\ [][ApiNext]_vars

----------------------------------------------------------------------------
(* Startup of the SQLite store: NewSQLiteStore runs the migration script on
   the database file, which processes open, use and close one after
   another.  In this specification table is the whole file: the rows of
   sqlite_master, of servers and of schema_migrations. *)

MasterRow(type, name) == [type |-> type, tbl_name |-> name]

MigrationRow(version, time) == [version |-> version, applied_at |-> time]

ServerRows(db) == {r \in db : "id" \in DOMAIN r}

MigrationRows(db) == {r \in db : "applied_at" \in DOMAIN r}

RowsOf(db, name) ==
    IF name = "servers" THEN ServerRows(db)
    ELSE IF name = "schema_migrations" THEN MigrationRows(db) ELSE {}

\* The statements of the migration script, in its order
Script ==
    <<[verb |-> "CREATE TABLE IF NOT EXISTS", name |-> "servers"],
      [verb |-> "CREATE INDEX IF NOT EXISTS", name |-> "idx_servers_name"],
      [verb |-> "CREATE INDEX IF NOT EXISTS", name |-> "idx_servers_active"],
      [verb |-> "CREATE INDEX IF NOT EXISTS", name |-> "idx_servers_created_at"],
      [verb |-> "CREATE TABLE IF NOT EXISTS", name |-> "schema_migrations"],
      [verb |-> "INSERT OR IGNORE", name |-> "schema_migrations"]>>

\* Mutant: the table is created anew, the rows it held are gone.
CreateTable_Recreate(db, name) ==
    (db \ RowsOf(db, name)) \cup {MasterRow("table", name)}

\* CREATE TABLE IF NOT EXISTS: an existing table is left as it is
CreateTable(db, name) == db \cup {MasterRow("table", name)}

\* INSERT OR IGNORE INTO schema_migrations (version) VALUES (1): a row
\* whose version, the primary key, is taken already is not inserted;
\* applied_at defaults to the current time.
InsertOrIgnore(db, time) ==
    IF \E r \in MigrationRows(db) : r.version = 1 THEN db
    ELSE db \cup {MigrationRow(1, time)}

\* One statement of the script on the file
ExecStatement(db, s, time) ==
    CASE s.verb = "CREATE TABLE IF NOT EXISTS" -> CreateTable(db, s.name)
      [] s.verb = "CREATE INDEX IF NOT EXISTS" -> db \cup {MasterRow("index", s.name)}
      [] OTHER -> InsertOrIgnore(db, time)

\* db.Exec of the whole script: statement after statement
RECURSIVE ExecFrom(_, _, _)
ExecFrom(db, i, time) ==
    IF i > Len(Script) THEN db
    ELSE ExecFrom(ExecStatement(db, Script[i], time), i + 1, time)

\* runMigrations: the script file is read, then executed
runMigrations(db, readable, time) ==
    IF ~readable
    THEN [err |-> WrappedErr("failed to read migrations.sql"), table |-> db]
    ELSE [err |-> NoErr, table |-> ExecFrom(db, 1, time)]

\* NewSQLiteStore: a process opens the file and runs the migrations; the
\* store exists when they succeeded.
NewSQLiteStore(w) ==
    \E readable \in BOOLEAN :
        LET m == runMigrations(table, readable, now)
        IN  /\ storageType = "sqlite"
            /\ pc[w] = "idle"
            /\ op' = [op EXCEPT ![w] = "NewSQLiteStore"]
            /\ arg' = [arg EXCEPT ![w] = NoArg]
            /\ ret' = [ret EXCEPT ![w] =
                          Returned(IF m.err = NoErr THEN NoErr
                                   ELSE WrappedErr("failed to run migrations"))]
            /\ pc' = [pc EXCEPT ![w] = IF m.err = NoErr THEN "open" ELSE "idle"]
            /\ table' = m.table
            /\ UNCHANGED <<storageType, servers, writer, readers, heap, now, calls,
                           loc, held>>

\* Create on the open store
OpenCreate(w) ==
    \E a \in StoreArgs("Create") :
        LET c == SqlCreateOutcome(ServerRows(table), heap, a.server, now)
        IN  /\ pc[w] = "open"
            /\ calls < MaxCalls
            /\ calls' = calls + 1
            /\ op' = [op EXCEPT ![w] = "Create"]
            /\ arg' = [arg EXCEPT ![w] = a]
            /\ ret' = [ret EXCEPT ![w] = Returned(c.err)]
            /\ table' = (table \ ServerRows(table)) \cup c.table
            /\ UNCHANGED <<storageType, servers, writer, readers, heap, now, pc,
                           loc, held>>

\* Close: the process ends, the file stays
Close(w) ==
    /\ pc[w] = "open"
    /\ pc' = [pc EXCEPT ![w] = "idle"]
    /\ op' = [op EXCEPT ![w] = "Close"]
    /\ arg' = [arg EXCEPT ![w] = NoArg]
    /\ ret' = [ret EXCEPT ![w] = NoRet]
    /\ UNCHANGED <<storageType, servers, writer, readers, table, heap, now, calls,
                   loc, held>>

\* A new, empty database file
MigrationInit == Init /\ storageType = "sqlite" /\ table = {}

MigrationNext ==
    \/ \E w \in Workers : NewSQLiteStore(w)
    \/ \E w \in Workers : OpenCreate(w)
    \/ \E w \in Workers : Close(w)
    \/ Tick

MigrationSpec == MigrationInit /\ [][MigrationNext]_vars

----------------------------------------------------------------------------
(* Config.Validate on its own: the configuration as Load assembled it from
   flags, environment and defaults is validated before anything starts.  A
   port is the sequence of its characters. *)

Digits == {"0", "1", "2", "3", "4", "5", "6", "7", "8", "9"}

\* strconv.Atoi on a string short enough to fit an int: an optional sign,
\* then one digit or more; nil when it parses
AtoiErr(s) ==
    LET unsigned == IF s # <<>> /\ s[1] \in {"+", "-"} THEN Tail(s) ELSE s
    IN  IF unsigned # <<>> /\ \A i \in 1..Len(unsigned) : unsigned[i] \in Digits
        THEN NoErr
        ELSE WrappedErr("strconv.Atoi: invalid syntax")

Config(environment, logLevel, storageKind, port, driver, maxOpen, maxIdle) ==
    [Environment |-> environment, LogLevel |-> logLevel, StorageType |-> storageKind,
     Port |-> port, DatabaseDriver |-> driver,
     MaxOpenConns |-> maxOpen, MaxIdleConns |-> maxIdle]

\* Configurations: each field with values Validate accepts and values it
\* refuses, the zero value of the type among them
Configs ==
    {Config(e, l, s, p, d, o, i) :
        e \in {"dev", "production", ""},
        l \in {"info", "trace"},
        s \in {"sqlite", "database", "postgres"},
        p \in {<<"8", "0", "8", "0">>, <<"-", "1">>, <<>>, <<"8", "0", "a">>, <<"+">>},
        d \in {"sqlite3", ""},
        o \in {25, 0, -1},
        i \in {25, 0}}

\* Mutant: the port is checked after the database driver.
ConfigValidate_DriverFirst(c) ==
    IF c.Environment \notin {"dev", "development", "test", "staging", "prod", "production"}
    THEN WrappedErr("invalid environment")
    ELSE IF c.LogLevel \notin {"debug", "info", "warn", "error"}
    THEN WrappedErr("invalid log level")
    ELSE IF c.StorageType \notin {"memory", "file", "sqlite", "database"}
    THEN WrappedErr("invalid storage type")
    ELSE IF c.DatabaseDriver \notin {"sqlite3", "postgres", "mysql"}
    THEN WrappedErr("invalid database driver")
    ELSE IF AtoiErr(c.Port) # NoErr
    THEN WrappedErr("invalid port")
    ELSE IF c.MaxOpenConns <= 0
    THEN WrappedErr("max_open_conns must be positive")
    ELSE IF c.MaxIdleConns <= 0
    THEN WrappedErr("max_idle_conns must be positive")
    ELSE NoErr

\* Config.Validate
ConfigValidate(c) ==
    IF c.Environment \notin {"dev", "development", "test", "staging", "prod", "production"}
    THEN WrappedErr("invalid environment")
    ELSE IF c.LogLevel \notin {"debug", "info", "warn", "error"}
    THEN WrappedErr("invalid log level")
    ELSE IF c.StorageType \notin {"memory", "file", "sqlite", "database"}
    THEN WrappedErr("invalid storage type")
    ELSE IF AtoiErr(c.Port) # NoErr
    THEN WrappedErr("invalid port")
    ELSE IF c.DatabaseDriver \notin {"sqlite3", "postgres", "mysql"}
    THEN WrappedErr("invalid database driver")
    ELSE IF c.MaxOpenConns <= 0
    THEN WrappedErr("max_open_conns must be positive")
    ELSE IF c.MaxIdleConns <= 0
    THEN WrappedErr("max_idle_conns must be positive")
    ELSE NoErr

\* The process that loads the configuration
ConfigCaller == "w1"

\* Load: the assembled configuration is validated
LoadConfig(w) ==
    \E c \in Configs :
        /\ storageType = "none"
        /\ w = ConfigCaller
        /\ CanCall(w)
        /\ calls' = calls + 1
        /\ op' = [op EXCEPT ![w] = "Config.Validate"]
        /\ arg' = [arg EXCEPT ![w] = [server |-> NilServer, key |-> "", config |-> c]]
        /\ ret' = [ret EXCEPT ![w] = Returned(ConfigValidate(c))]
        /\ pc' = [pc EXCEPT ![w] = "done"]
        /\ UNCHANGED <<storageType, servers, writer, readers, table, heap, now,
                       loc, held>>

ConfigNext == \E w \in Workers : LoadConfig(w)

ConfigSpec == ValidateInit /\ [][ConfigNext]_vars

----------------------------------------------------------------------------
(* Properties *)

Live(id) ==
    IF storageType = "memory" THEN id \in DOMAIN servers ELSE RowsByID(table, id) # {}

LiveIDs == {id \in IDs : Live(id)}

\* What GetByID(id) returns in the current state.
GetByIDNow(id) ==
    IF storageType = "memory" THEN MemGetByIDResult(servers, id)
    ELSE SqlGetByIDResult(table, id)

Invalid(server) == server.ID = "" \/ server.Name = "" \/ server.Version = ""

\* Every worker has made one call, a Create of a valid record with this id,
\* and all of them have returned.
AllCreated(st, id) ==
    /\ storageType = st
    /\ calls = Cardinality(Workers)
    /\ \A w \in Workers :
           /\ op[w] = "Create"
           /\ pc[w] = "done"
           /\ arg[w].server.ID = id
           /\ ~Invalid(arg[w].server)

Winners == {w \in Workers : ret[w].err = NoErr}

\* The record the store keeps for a Create of server.
CreatedFrom(stored, server) ==
    /\ [stored EXCEPT !.CreatedAt = ""] = [server EXCEPT !.CreatedAt = ""]
    /\ stored.CreatedAt # ""
    /\ server.CreatedAt # "" => stored.CreatedAt = server.CreatedAt

(* C1: in the in-memory store, when every worker Creates a valid record with
   the same id on a store that lacks it, exactly one call succeeds, the
   others return ErrServerExists, and the one live record is the winner's. *)
C1_OneCreateWins ==
    \A id \in IDs :
        AllCreated("memory", id) =>
            /\ Cardinality(Winners) = 1
            /\ \A w \in Workers \ Winners : ret[w].err = ErrServerExists
            /\ DOMAIN servers = {id}
            /\ \A w \in Winners : CreatedFrom(servers[id], arg[w].server)

C1_Witness ==
    /\ AllCreated("memory", "a")
    /\ \E w \in Workers : ret[w].err = ErrServerExists
    /\ \E w1, w2 \in Workers : arg[w1].server.Name # arg[w2].server.Name

\* The ids no row of an earlier run uses.
FreshIDs == IDs \ {r.id : r \in PersistedRows}

\* The name of w's record is held by a row with another id.
NameTaken(w) ==
    \E r \in table : r.id # arg[w].server.ID /\ r.name = arg[w].server.Name

(* C2 as stated: in the SQLite store, when every worker Creates a valid
   record with the same id on a store that lacks it, exactly one call
   succeeds and the others return ErrServerExists, with one row stored. *)
C2_Original ==
    \A id \in FreshIDs :
        AllCreated("sqlite", id) =>
            /\ Cardinality(Winners) = 1
            /\ \A w \in Workers \ Winners : ret[w].err = ErrServerExists
            /\ Cardinality(RowsByID(table, id)) = 1

(* C2 as amended: in the SQLite store, when every worker Creates a valid
   record with the same id on a store that lacks it, at most one call
   succeeds, every other call returns ErrServerExists (never a wrapped
   error) and the id never has two rows; exactly one call succeeds unless
   the name of every call is held by a row with another id, and then none
   succeeds and no row is stored. *)
C2_AtMostOneCreateWins ==
    \A id \in FreshIDs :
        AllCreated("sqlite", id) =>
            /\ Cardinality(Winners) <= 1
            /\ \A w \in Workers \ Winners : ret[w].err = ErrServerExists
            /\ Cardinality(RowsByID(table, id)) = Cardinality(Winners)
            /\ Winners = {} <=> \A w \in Workers : NameTaken(w)
            /\ \A w \in Winners :
                   CreatedFrom(Value(heap, GetByIDNow(id).server),
                               Value(heap, arg[w].server))

\* Both calls passed the pre-check and the INSERT decided the loser.
C2_Witness ==
    /\ AllCreated("sqlite", "a")
    /\ \E w1, w2 \in Workers :
           /\ ret[w1].err = NoErr
           /\ ret[w2].err = ErrServerExists
           /\ loc[w2].tagsJSON # <<>>

(* C3: after any interleaving of Create, Update and Delete the store holds at
   most one record per id, every record is stored under its own id, and
   GetAll never returns two records with the same id. *)
C3_OneRecordPerID ==
    /\ \A k \in DOMAIN servers : servers[k].ID = k
    /\ \A r1, r2 \in table : r1.id = r2.id => r1 = r2
    /\ \A w \in Workers :
           (op[w] = "GetAll" /\ pc[w] = "done") =>
               \A i, j \in 1..Len(ret[w].servers) :
                   ret[w].servers[i].ID = ret[w].servers[j].ID => i = j

C3_Witness ==
    \E w \in Workers :
        /\ op[w] = "GetAll"
        /\ pc[w] = "done"
        /\ Len(ret[w].servers) = 2

\* What GetByID returns, by value, for every live id.
StoredValue(id) == Value(heap, GetByIDNow(id).server)

StoreView == [id \in LiveIDs |-> StoredValue(id)]

(* C4: no record a caller holds aliases the store: a caller's write to a
   field or to a tags element of a record it passed to Create or Update, or
   got from GetByID or GetAll, never changes what GetByID returns. *)
C4_Original ==
    [][(\E w \in Workers : MutateField(w) \/ MutateTags(w)) => StoreView' = StoreView]_vars

CreatedAtNow(id) == GetByIDNow(id).server.CreatedAt

(* C5: while an id stays live, from its Create to its Delete, GetByID
   returns the same created_at for it, whatever Updates happen and whatever
   created_at they pass. *)
C5_CreatedAtKept ==
    [][\A id \in IDs : (Live(id) /\ Live(id)') => CreatedAtNow(id)' = CreatedAtNow(id)]_vars

C5_Witness ==
    /\ storageType = "memory"
    /\ \E w \in Workers :
           /\ op[w] = "Update"
           /\ pc[w] = "done"
           /\ ret[w].err = NoErr
           /\ Live(arg[w].server.ID)
           /\ CreatedAtNow(arg[w].server.ID) # arg[w].server.CreatedAt

\* The step of Create that stores the record.
CreateStores(w) == MemCreate(w) \/ SqlCreateInsert(w)

GetByIDErrNow(id) == GetByIDNow(id).err

\* After w's Create, GetByID returns w's record.
CreatedAndReadable(w) ==
    /\ ret'[w].err = NoErr
    /\ GetByIDErrNow(arg[w].server.ID)' = NoErr
    /\ CreatedFrom(StoredValue(arg[w].server.ID)', Value(heap, arg[w].server))

(* C6 as stated: for every valid record whose id is not live, Create succeeds
   and GetByID then returns a record equal to it but for created_at, which
   is the caller's when given and a non-empty store timestamp otherwise. *)
C6_Original ==
    [][\A w \in Workers :
           (CreateStores(w) /\ ~Live(arg[w].server.ID)) => CreatedAndReadable(w)]_vars

(* C6 as amended: for every valid record whose id is not live and, in the
   SQLite store, whose name no live record holds, Create succeeds and
   GetByID then returns a record equal to it but for created_at, which is
   the caller's when given and a non-empty store timestamp otherwise. *)
C6_CreateThenGet ==
    [][\A w \in Workers :
           (CreateStores(w) /\ ~Live(arg[w].server.ID) /\ ~NameTaken(w))
               => CreatedAndReadable(w)]_vars

C6_Witness ==
    /\ storageType = "sqlite"
    /\ \E w \in Workers :
           /\ op[w] = "Create"
           /\ pc[w] = "done"
           /\ ret[w].err = NoErr
           /\ arg[w].server.Tags.kind = "ref"
           /\ StoredValue(arg[w].server.ID).Tags = <<"t1", "t2">>

(* C7: a Create of a valid record whose id is live fails with
   ErrServerExists and leaves every live record as it was. *)
C7_DuplicateCreateRejected ==
    [][\A w \in Workers :
           ((MemCreate(w) \/ SqlCreateCheck(w) \/ SqlCreateInsert(w))
                /\ Live(arg[w].server.ID))
               => (ret'[w].err = ErrServerExists /\ StoreView' = StoreView)]_vars

C7_Witness ==
    \E w \in Workers :
        /\ storageType = "memory"
        /\ op[w] = "Create"
        /\ pc[w] = "done"
        /\ ret[w].err = ErrServerExists
        /\ Live(arg[w].server.ID)
        /\ StoredValue(arg[w].server.ID).Name # arg[w].server.Name

(* C8: Create and Update decide validation before any lookup: a record with
   an empty id, name or version gets the validation error, whether or not
   its id is live, and the call never reaches the lock or the store. *)
C8_ValidationFirst ==
    \A w \in Workers :
        (op[w] \in {"Create", "Update"} /\ Invalid(arg[w].server)) =>
            /\ pc[w] = "done"
            /\ ret[w].err.kind = "validation failed"
            /\ ret[w].err.fields # <<>>
            /\ writer # w

C8_Witness ==
    \E w \in Workers :
        /\ op[w] \in {"Create", "Update"}
        /\ Invalid(arg[w].server)
        /\ arg[w].server.ID # ""
        /\ Live(arg[w].server.ID)

\* The record GetByID returns after an Update of old with supplied.
UpdatedFrom(new, supplied, old) ==
    /\ [new EXCEPT !.CreatedAt = ""] = [supplied EXCEPT !.CreatedAt = ""]
    /\ new.CreatedAt = old.CreatedAt

OthersKept(id) ==
    \A k \in IDs \ {id} :
        /\ Live(k)' = Live(k)
        /\ Live(k) => StoredValue(k)' = StoredValue(k)

\* w's Update replaced the record and kept its created_at.
UpdateApplied(w) ==
    /\ ret'[w].err = NoErr
    /\ Live(arg[w].server.ID)'
    /\ UpdatedFrom(StoredValue(arg[w].server.ID)', Value(heap, arg[w].server),
                   StoredValue(arg[w].server.ID))
    /\ OthersKept(arg[w].server.ID)

UpdateOfAbsent(w) ==
    ((MemUpdate(w) \/ SqlUpdateCheck(w) \/ SqlUpdateExec(w)) /\ ~Live(arg[w].server.ID))
        => (ret'[w].err = ErrServerNotFound /\ StoreView' = StoreView)

(* C9 as stated: an Update of a valid record fails with ErrServerNotFound
   and creates nothing when its id is not live; when the id is live it
   replaces every field by the supplied value except created_at. *)
C9_Original ==
    [][\A w \in Workers :
           /\ UpdateOfAbsent(w)
           /\ ((MemUpdate(w) \/ SqlUpdateExec(w)) /\ Live(arg[w].server.ID))
                  => UpdateApplied(w)]_vars

(* C9 as amended: an Update of a valid record fails with ErrServerNotFound
   and creates nothing when its id is not live; when the id is live it
   replaces every field by the supplied value except created_at, unless, in
   the SQLite store, another live record holds the supplied name: then it
   fails with a wrapped engine error and changes nothing. *)
C9_UpdateReplaces ==
    [][\A w \in Workers :
           /\ UpdateOfAbsent(w)
           /\ ((MemUpdate(w) \/ SqlUpdateExec(w)) /\ Live(arg[w].server.ID)
                   /\ ~NameTaken(w))
                  => UpdateApplied(w)
           /\ (SqlUpdateExec(w) /\ Live(arg[w].server.ID) /\ NameTaken(w))
                  => /\ ret'[w].err = WrappedErr("failed to update server")
                     /\ StoreView' = StoreView]_vars

C9_Witness ==
    \E w \in Workers :
        /\ storageType = "sqlite"
        /\ op[w] = "Update"
        /\ pc[w] = "done"
        /\ ret[w].err = NoErr
        /\ Live(arg[w].server.ID)
        /\ StoredValue(arg[w].server.ID).Name = "web-db"
        /\ StoredValue(arg[w].server.ID).CreatedAt # arg[w].server.CreatedAt

\* What the reads return in the current state.
GetAllNow ==
    IF storageType = "memory" THEN MemGetAllResults(servers) ELSE SqlGetAllResults(table)

SearchNow(q) ==
    IF storageType = "sqlite" THEN SqlSearchResults(table, q)
    ELSE IF q = "" THEN {NoRet} ELSE MemSearchResults(servers, q)

CountNow == IF storageType = "memory" THEN MemCountResult(servers) ELSE SqlCountResult(table)

DeleteErrNow(id) ==
    IF storageType = "memory" THEN MemDeleteErr(servers, id) ELSE SqlDeleteErr(table, id)

\* No operation finds id.
Gone(id) ==
    /\ GetByIDErrNow(id) = ErrServerNotFound
    /\ DeleteErrNow(id) = ErrServerNotFound
    /\ \A r \in GetAllNow : \A i \in 1..Len(r.servers) : r.servers[i].ID # id
    /\ \A q \in Queries : \A r \in SearchNow(q) :
           \A i \in 1..Len(r.servers) : r.servers[i].ID # id

TotalNow == CountNow.total

(* C10: Delete returns ErrInvalidID for the empty id and ErrServerNotFound
   for an id that is not live, changing nothing; otherwise it removes the
   record: GetByID and a second Delete then fail with ErrServerNotFound,
   GetAll and Search no longer list it, Count counts one record less, and
   only a Create of that id makes it live again. *)
C10_Delete ==
    [][/\ \A w \in Workers :
              /\ ((MemDeleteCall(w) \/ SqlDelete(w)) /\ arg'[w].key = "")
                     => (ret'[w].err = ErrInvalidID /\ pc'[w] = "done"
                             /\ StoreView' = StoreView)
              /\ \A id \in IDs :
                     ((MemDelete(w) \/ SqlDelete(w)) /\ arg'[w].key = id) =>
                         IF Live(id)
                         THEN /\ ret'[w].err = NoErr
                              /\ Gone(id)'
                              /\ TotalNow' = TotalNow - 1
                              /\ OthersKept(id)
                         ELSE /\ ret'[w].err = ErrServerNotFound
                              /\ StoreView' = StoreView
       /\ \A id \in IDs :
              (~Live(id) /\ Live(id)') =>
                  \E w \in Workers : CreateStores(w) /\ arg[w].server.ID = id]_vars

C10_Witness ==
    \E w \in Workers :
        /\ op[w] = "Delete"
        /\ pc[w] = "done"
        /\ ret[w].err = NoErr
        /\ Gone(arg[w].key)
        /\ LiveIDs # {}

\* The returned record is the one the store holds: the map's value, or the
\* row that encodes it.
IsStored(server) ==
    IF storageType = "memory"
    THEN server.ID \in DOMAIN servers
             /\ Value(heap, server) = Value(heap, servers[server.ID])
    ELSE InsertRow(server, Marshal(heap, server.Tags)) \in table

(* C11: GetByID returns ErrInvalidID and no record exactly for the empty id,
   ErrServerNotFound and no record exactly for a non-empty id that is not
   live, and otherwise no error and the live record with that id. *)
C11_GetByID ==
    [][\A w \in Workers : \A id \in Keys :
           ((MemGetByIDCall(w) \/ MemGetByID(w) \/ SqlGetByID(w))
                /\ arg'[w].key = id /\ pc'[w] = "done") =>
               IF id = "" THEN ret'[w] = Returned(ErrInvalidID)
               ELSE IF ~Live(id) THEN ret'[w] = Returned(ErrServerNotFound)
               ELSE /\ ret'[w].err = NoErr
                    /\ ret'[w].server.ID = id
                    /\ IsStored(ret'[w].server)]_vars

C11_Witness ==
    \E w \in Workers :
        /\ storageType = "sqlite"
        /\ op[w] = "GetByID"
        /\ pc[w] = "done"
        /\ ret[w].err = NoErr
        /\ ret[w].server.ID = arg[w].key
        /\ ret[w].server.Tags = OwnSlice(<<"t1", "t2">>)

(* C12: in both stores Search with the empty query returns an empty result
   and no error, whatever the store holds. *)
C12_EmptyQuery ==
    \A w \in Workers :
        (op[w] = "Search" /\ arg[w].key = "") =>
            /\ pc[w] = "done"
            /\ ret[w].err = NoErr
            /\ ret[w].servers = <<>>

C12_Witness ==
    \E w \in Workers :
        /\ storageType = "sqlite"
        /\ op[w] = "Search"
        /\ arg[w].key = ""
        /\ pc[w] = "done"
        /\ LiveIDs # {}

\* name contains query, both lower-cased
NameMatches(name, query) == Contains(ToLower(Chars(name)), ToLower(Chars(query)))

(* C13: in the in-memory store Search with a non-empty query returns each
   live record whose lower-cased name contains the lower-cased query, once,
   and no other record. *)
C13_MemSearchExact ==
    [][\A w \in Workers :
           MemSearch(w) =>
               /\ ret'[w].err = NoErr
               /\ \A k \in DOMAIN servers :
                      NameMatches(servers[k].Name, arg[w].key)
                          <=> \E i \in 1..Len(ret'[w].servers) : ret'[w].servers[i] = servers[k]
               /\ \A i \in 1..Len(ret'[w].servers) :
                      \E k \in DOMAIN servers : ret'[w].servers[i] = servers[k]
               /\ \A i, j \in 1..Len(ret'[w].servers) :
                      ret'[w].servers[i].ID = ret'[w].servers[j].ID => i = j]_vars

C13_Witness ==
    \E w \in Workers :
        /\ storageType = "memory"
        /\ op[w] = "Search"
        /\ arg[w].key = "WEB"
        /\ pc[w] = "done"
        /\ Len(ret[w].servers) = 1
        /\ ret[w].servers[1].Name = "Web"

(* C14: in the SQLite store Search with a non-empty query, whatever its
   characters, returns exactly the records whose name contains the query as
   a case-insensitive substring. *)
C14_Original ==
    [][(PairSearch /\ arg'[SqlClient].key # "") =>
           /\ ret'[SqlClient].err = NoErr
           /\ \A r \in table :
                  NameMatches(r.name, arg'[SqlClient].key)
                      <=> \E i \in 1..Len(ret'[SqlClient].servers) :
                              ret'[SqlClient].servers[i].ID = r.id]_vars

ActiveIDs == {id \in LiveIDs : StoredValue(id).IsActive}

(* C15: Count returns the number of live records and the number of live
   records with is_active = true, both of the state it ran in, hence
   0 <= active <= total, also while other workers write. *)
C15_Count ==
    [][\A w \in Workers :
           (MemCount(w) \/ SqlCount(w)) =>
               /\ ret'[w].err = NoErr
               /\ ret'[w].total = Cardinality(LiveIDs)
               /\ ret'[w].active = Cardinality(ActiveIDs)
               /\ 0 <= ret'[w].active
               /\ ret'[w].active <= ret'[w].total]_vars

C15_Witness ==
    \E w \in Workers :
        /\ storageType = "memory"
        /\ op[w] = "Count"
        /\ pc[w] = "done"
        /\ ret[w].total = 1
        /\ ret[w].active = 0

\* The records each of the two stores holds, as callers read them.
MemRecords == {Value(heap, servers[k]) : k \in DOMAIN servers}

SqlRecords == {Value(heap, scanServer(r)) : r \in table}

(* C16: applied to a MemoryStore and a SQLiteStore that both start empty,
   every sequence of Create, Update, Delete, GetByID, Search and Count calls
   gets the same outcome class from both for each call and leaves the same
   set of records in both. *)
C16_Original ==
    /\ ret[MemClient].err.kind = ret[SqlClient].err.kind
    /\ MemRecords = SqlRecords

\* Worker w is between taking the lock and releasing it.
InLockedSection(w) == storageType = "memory" /\ pc[w] = "body"

Writing(w) == InLockedSection(w) /\ op[w] \in {"Create", "Update", "Delete"}

Reading(w) == InLockedSection(w) /\ op[w] \in {"GetAll", "GetByID", "Search", "Count"}

(* C17: in the in-memory store no Create, Update or Delete is inside its
   locked section while any other operation is inside its own; reads may be
   inside their locked sections together. *)
C17_WriteExcludesAll ==
    \A w1, w2 \in Workers :
        (w1 # w2 /\ Writing(w1)) => ~InLockedSection(w2)

\* Two reads are inside their locked sections at the same instant.
ReadsTogether ==
    \E w1, w2 \in Workers : w1 # w2 /\ Reading(w1) /\ Reading(w2)

\* A write is inside its locked section and a read waits for the lock.
C17_Witness ==
    \E w1, w2 \in Workers :
        /\ Writing(w1)
        /\ pc[w2] = "lock"
        /\ op[w2] \in {"GetAll", "GetByID", "Search", "Count"}

\* The results a read may return when evaluated on the current record set.
ReadNow(o, k) ==
    CASE o = "GetByID" -> {GetByIDNow(k)}
      [] o = "GetAll" -> GetAllNow
      [] o = "Search" -> SearchNow(k)
      [] o = "Count" -> {CountNow}

\* The step in which w's read evaluates and returns.
MemReadReturns(w) == MemGetByID(w) \/ MemGetAll(w) \/ MemSearch(w) \/ MemCount(w)

(* C18: in the in-memory store the record set does not change while a read
   is inside its locked section, and what the read returns is its result on
   the record set of that section, which holds every write that returned
   before: no read sees a partly applied write. *)
C18_ReadsSeeOneState ==
    [][/\ (\E w \in Workers : Reading(w)) => servers' = servers
       /\ \A w \in Workers :
              MemReadReturns(w) => ret'[w] \in ReadNow(op[w], arg[w].key)]_vars

\* A GetByID that returned the record a finished Create stored.
C18_Witness ==
    \E w1, w2 \in Workers :
        /\ storageType = "memory"
        /\ op[w1] = "Create" /\ pc[w1] = "done" /\ ret[w1].err = NoErr
        /\ op[w2] = "GetByID" /\ pc[w2] = "done" /\ ret[w2].err = NoErr
        /\ ret[w2].server.ID = arg[w1].server.ID

\* Every worker has made one call, a Create of a valid record on the
\* in-memory store, all with different ids, and all have returned.
AllCreatedDistinct ==
    /\ storageType = "memory"
    /\ calls = Cardinality(Workers)
    /\ \A w \in Workers :
           op[w] = "Create" /\ pc[w] = "done" /\ ~Invalid(arg[w].server)
    /\ \A w1, w2 \in Workers :
           arg[w1].server.ID = arg[w2].server.ID => w1 = w2

(* C19: when the workers concurrently Create valid records with pairwise
   distinct ids on the in-memory store, every Create succeeds and GetAll
   then returns exactly one record per created id. *)
C19_NoCreateLost ==
    AllCreatedDistinct =>
        /\ \A w \in Workers : ret[w].err = NoErr
        /\ \A r \in GetAllNow :
               /\ Len(r.servers) = Cardinality(Workers)
               /\ \A w \in Workers :
                      \E i \in 1..Len(r.servers) :
                          /\ r.servers[i].ID = arg[w].server.ID
                          /\ CreatedFrom(Value(heap, r.servers[i]),
                                         Value(heap, arg[w].server))

C19_Witness ==
    /\ AllCreatedDistinct
    /\ \E w1, w2 \in Workers : arg[w1].server.Name = arg[w2].server.Name /\ w1 # w2

\* The required fields in the order ValidateServer reports them.
RequiredFields == <<"id", "name", "version">>

FieldOf(server, f) ==
    CASE f = "id" -> server.ID
      [] f = "name" -> server.Name
      [] f = "version" -> server.Version

(* C20: ValidateServer returns no error exactly when id, name and version are
   all non-empty; otherwise it returns one aggregate with an entry
   "<field>: is required" for each empty field among the three and for
   nothing else, in the order id, name, version, rendered as
   "validation failed: " and the entries joined by ", "; the aggregate it
   returns is never empty. *)
C20_ValidateServer ==
    \A w \in Workers :
        op[w] = "ValidateServer" =>
            LET server == arg[w].server
                err == ret[w].err
                empty == {i \in 1..3 : FieldOf(server, RequiredFields[i]) = ""}
            IN  /\ err = NoErr <=> empty = {}
                /\ err # NoErr =>
                       /\ err.kind = "validation failed"
                       /\ Len(err.fields) = Cardinality(empty)
                       /\ Len(err.fields) > 0
                       /\ \A k \in 1..Len(err.fields) :
                              /\ err.fields[k].Message = "is required"
                              /\ \E i \in empty : err.fields[k].Field = RequiredFields[i]
                       /\ \A k, l \in 1..Len(err.fields) : \A i, j \in empty :
                              (k < l /\ err.fields[k].Field = RequiredFields[i]
                                     /\ err.fields[l].Field = RequiredFields[j]) => i < j
                       /\ SubSeq(ValidationErrorsText(err.fields), 1, 4)
                              = <<"validation failed: ", err.fields[1].Field, ": ",
                                  "is required">>
                       /\ Len(ValidationErrorsText(err.fields)) = 4 * Len(err.fields)
                       /\ \A k \in 2..Len(err.fields) :
                              SubSeq(ValidationErrorsText(err.fields), 4 * k - 3, 4 * k)
                                  = <<", ", err.fields[k].Field, ": ", "is required">>

\* A record with two empty required fields and one that is set.
C20_Witness ==
    \E w \in Workers :
        /\ op[w] = "ValidateServer"
        /\ arg[w].server.ID = ""
        /\ arg[w].server.Name # ""
        /\ arg[w].server.Version = ""
        /\ Len(ret[w].err.fields) = 2

\* A request body that is a JSON object without the member is_active
LacksIsActive(body) == body.kind = "object" /\ "is_active" \notin DOMAIN body.doc

(* C21: a record created through POST /servers from a JSON body without
   is_active is stored with is_active = true and Count counts it as active. *)
C21_Original ==
    [][\A w \in Workers : \A id \in IDs :
           (PostServers(w) /\ ret'[w].status = "StatusCreated"
                /\ arg'[w].server.ID = id /\ LacksIsActive(arg'[w].body)) =>
               /\ StoredValue(id)'.IsActive
               /\ CountNow'.active = CountNow.active + 1]_vars

(* C22: GetAll of the SQLite store lists the records in reverse creation
   order: the record whose Create completed last comes first, also when
   callers pass their own created_at and when records are created within
   the same second. *)
C22_Original ==
    [][\A w \in Workers :
           (SqlCreateInsert(w) /\ ret'[w].err = NoErr) =>
               \A r \in GetAllNow' : r.servers[1].ID = loc[w].server.ID]_vars

\* How long a call of worker w has run
Waited(w) == now - loc[w].entered

(* C23: every operation of the SQLite store runs under a timeout counted from
   call entry, here of any length up to MaxTime ticks: no call is still
   waiting for the engine once the timeout has passed, and an answer of the
   engine that comes after it yields an error and changes nothing. *)
C23_Original ==
    /\ [](\A w \in Workers : pc[w] = "engine" => Waited(w) < MaxTime)
    /\ [][\A w \in Workers :
              (EngineAnswers(w) /\ Waited(w) >= MaxTime) =>
                  (ret'[w].err # NoErr /\ table' = table)]_vars

(* C24: no operation of the SQLite store swallows a failure: when the engine
   reports an error in the query, the scan of a row or the iteration over
   the rows, the operation returns a non-nil error. *)
C24_Original ==
    [][\A w \in Workers :
           (EngineAnswers(w) /\ loc'[w].fault # "ok") => ret'[w].err # NoErr]_vars

(* C25: InitWithSampleData on an empty store leaves the store non-empty,
   whatever the seed dataset is: a missing or unreadable file, unparsable
   JSON, a well-formed empty list, or a list whose entries all fail. *)
C25_Original ==
    [][\A w \in Workers : (Seed(w) /\ TotalNow = 0) => TotalNow' > 0]_vars

\* A seeding call of worker w that ran the loader, not skipped it
Loaded(w, path) == Seed(w) /\ ret'[w].path = path

(* C26: during seeding a record whose creation fails is skipped and every
   later record is still attempted, both for the entries of the dataset and
   for the built-in fallback records: seeding never stops at the first
   failing record. *)
C26_Original ==
    [][\A w \in Workers :
           /\ Loaded(w, "import") =>
                  Len(ret'[w].attempted) = Len(arg'[w].dataset.entries)
           /\ Loaded(w, "fallback") =>
                  Len(ret'[w].attempted) = Len(FallbackRecords(storageType, now))]_vars

(* C27: seeding the SQLite store is idempotent: when the store holds at
   least one record, InitWithSampleData creates, changes and deletes nothing
   and returns success. *)
C27_SeedIdempotent ==
    [][\A w \in Workers :
           (Seed(w) /\ storageType = "sqlite" /\ TotalNow > 0) =>
               /\ table' = table
               /\ ret'[w].err = NoErr
               /\ ret'[w].attempted = <<>>]_vars

\* InitWithSampleData was called twice on a SQLite store that started
\* empty: the first call seeded it, the second was skipped.
C27_Witness ==
    /\ storageType = "sqlite"
    /\ calls = 2
    /\ op = [w \in Workers |-> IF w = SeedCaller THEN "InitWithSampleData" ELSE "none"]
    /\ ret[SeedCaller].path = "skipped"
    /\ table # {}
    /\ table \cap PersistedRows = {}

\* The registry names of an entry that count as tags
TagNames(packages) == Range(packages) \ {"", "unknown"}

(* C28: the tags of an imported record are the entry's package registry
   names that are neither empty nor "unknown", each distinct name once,
   followed by "mcp" and "server". *)
C28_Original ==
    [][\A w \in Workers :
           Loaded(w, "import") =>
               \A i \in 1..Len(ret'[w].attempted) :
                   LET tags == ret'[w].attempted[i].Tags.elems
                       names == TagNames(arg'[w].dataset.entries[i].packages)
                       n == Cardinality(names)
                   IN  /\ Len(tags) = n + 2
                       /\ Range(SubSeq(tags, 1, n)) = names
                       /\ SubSeq(tags, n + 1, n + 2) = <<"mcp", "server">>]_vars

\* Where "github.com/" starts in the pieces of a URL
GithubAt(p) == {i \in 1..(Len(p) - 1) : p[i] = "github.com" /\ p[i + 1] = "/"}

\* The author the URL names: the non-empty segment right after "github.com/"
\* of a URL with a scheme prefix, and "Unknown" when there is none
NamedAuthor(u) ==
    LET p == URLPieces(u)
        i == CHOOSE k \in GithubAt(p) : \A j \in GithubAt(p) : k <= j
    IN  IF GithubAt(p) = {} \/ ~(Len(p) >= 3 /\ p[2] = "/" /\ p[3] = "/")
        THEN "Unknown"
        ELSE IF i + 2 <= Len(p) /\ p[i + 2] # "/" THEN p[i + 2]
        ELSE "Unknown"

(* C29: the author derived from a repository URL is the non-empty path
   segment that directly follows "github.com/", and "Unknown" when the URL
   lacks "github.com/" or no such segment can be parsed (no scheme prefix,
   nothing after "github.com/"). *)
C29_Original ==
    [][\A w \in Workers :
           Loaded(w, "import") =>
               \A i \in 1..Len(ret'[w].attempted) :
                   ret'[w].attempted[i].Author =
                       NamedAuthor(arg'[w].dataset.entries[i].url)]_vars

\* The body is one well-formed JSON text
ValidJSON(body) == body.kind \in {"object", "array"} /\ ~body.trailing

\* The body starts with a JSON object, which is what Decode reads
Decodable(body) == body.kind = "object"

\* The status handleCreateServer answers for the outcome of Create
StatusFollows(r) ==
    /\ r.called
    /\ r.err = NoErr => r.status = "StatusCreated"
    /\ r.err.kind = "validation failed" => r.status = "StatusBadRequest"
    /\ r.err = ErrServerExists => r.status = "StatusConflict"
    /\ (r.err \notin {NoErr, ErrServerExists} /\ r.err.kind # "validation failed")
           => r.status = "StatusInternalServerError"

\* A body that is rejected: 400, Create not called, the store as it was
Rejected(r) ==
    /\ r.status = "StatusBadRequest"
    /\ ~r.called
    /\ servers' = servers
    /\ table' = table

(* C30 as stated: POST /servers answers 400 for a validation failure of
   Create, 409 for an error whose message contains "already exists", 500
   for any other error and 201 for success; a body that is not valid JSON
   gets 400 and Create is not called. *)
C30_Original ==
    [][\A w \in Workers :
           PostServers(w) =>
               /\ ~ValidJSON(arg'[w].body) => Rejected(ret'[w])
               /\ ret'[w].called => StatusFollows(ret'[w])]_vars

(* C30 as amended: POST /servers answers 400 for a validation failure of
   Create, 409 for an error whose message contains "already exists", 500
   for any other error and 201 for success; a body from which no JSON
   object can be decoded gets 400 and Create is not called, while a body
   that starts with a JSON object is decoded and passed to Create whatever
   follows the object. *)
C30_PostStatus ==
    [][\A w \in Workers :
           PostServers(w) =>
               /\ ~Decodable(arg'[w].body) => Rejected(ret'[w])
               /\ Decodable(arg'[w].body) => StatusFollows(ret'[w])
               /\ \A id \in IDs :
                      (ret'[w].status = "StatusCreated" /\ arg'[w].server.ID = id)
                          => GetByIDNow(id)'.err = NoErr]_vars

\* A POST of a record whose id is stored was answered 409, and a body with
\* bytes after its JSON object was answered 201.
C30_Witness ==
    /\ op["w1"] = "POST /servers" /\ ret["w1"].status = "StatusCreated"
    /\ arg["w1"].body.trailing
    /\ op["w2"] = "POST /servers" /\ ret["w2"].status = "StatusConflict"
    /\ ret["w2"].called

\* Another row than the one with this id holds the name
NameClash(t, id, name) == \E r \in t : r.id # id /\ r.name = name

(* C33: in the SQLite store no two live records share a name: a Create
   whose name is that of a live record with another id fails with
   ErrServerExists and stores nothing, and an Update that would give a
   record the name of another live record fails and changes nothing. *)
C33_UniqueNames ==
    /\ [](storageType = "sqlite" =>
              \A r1, r2 \in table : r1.name = r2.name => r1 = r2)
    /\ [][\A w \in Workers :
              /\ (SqlCreateInsert(w)
                      /\ NameClash(table, loc[w].server.ID, loc[w].server.Name)) =>
                     (ret'[w].err = ErrServerExists /\ table' = table)
              /\ (SqlUpdateExec(w)
                      /\ NameClash(table, loc[w].server.ID, loc[w].server.Name)) =>
                     (ret'[w].err # NoErr /\ table' = table)]_vars

\* A Create was refused for its name alone: its id is not live, its name is
\* that of a live record.
C33_Witness ==
    /\ storageType = "sqlite"
    /\ \E w \in Workers :
           /\ op[w] = "Create" /\ pc[w] = "done" /\ ret[w].err = ErrServerExists
           /\ RowsByID(table, arg[w].server.ID) = {}
           /\ NameClash(table, arg[w].server.ID, arg[w].server.Name)

\* The in-memory record set is what it was before the step
MemUnchanged == servers' = servers /\ StoreView' = StoreView

(* C36: in the in-memory store a Create, Update or Delete that returns an
   error (validation failure, ErrInvalidID, ErrServerExists,
   ErrServerNotFound) leaves the record set as it was, and GetAll,
   GetByID, Search and Count never change it. *)
C36_FailuresChangeNothing ==
    [][\/ storageType # "memory"
       \/ MemUnchanged
       \/ \A w \in Workers :
              /\ ~(/\ pc'[w] = "done"
                   /\ ret'[w].err # NoErr
                   /\ \/ CreateCall(w) \/ UpdateCall(w) \/ MemDeleteCall(w)
                      \/ MemCreate(w) \/ MemUpdate(w) \/ MemDelete(w))
              /\ ~(\/ MemGetAllCall(w) \/ MemGetByIDCall(w) \/ MemSearchCall(w)
                   \/ MemCountCall(w) \/ RLock(w) \/ MemGetAll(w)
                   \/ MemGetByID(w) \/ MemSearch(w) \/ MemCount(w))]_vars

\* One worker's Create of an id succeeded and the other's Create of the
\* same id failed with ErrServerExists.
C36_Witness ==
    /\ storageType = "memory"
    /\ servers # <<>>
    /\ \E w, v \in Workers :
           /\ op[w] = "Create" /\ pc[w] = "done" /\ ret[w].err = NoErr
           /\ op[v] = "Create" /\ pc[v] = "done" /\ ret[v].err = ErrServerExists
           /\ arg[v].server.ID = arg[w].server.ID

(* C37: in the SQLite store an Update racing with a Delete of the same id
   either applies before the Delete or returns ErrServerNotFound: its
   UPDATE statement never re-creates a deleted record and never reports
   success for a record that is not live. *)
C37_UpdateAfterDelete ==
    [][\A w \in Workers : \A id \in IDs :
           (SqlUpdateExec(w) /\ loc[w].server.ID = id) =>
               /\ RowsByID(table, id) = {} =>
                      (ret'[w].err = ErrServerNotFound /\ table' = table)
               /\ ret'[w].err = NoErr =>
                      (RowsByID(table, id) # {} /\ RowsByID(table', id) # {})
               /\ {r.id : r \in table'} = {r.id : r \in table}]_vars

\* An Update found its record, a Delete of that id then succeeded, and the
\* Update returned ErrServerNotFound with the record still gone.
C37_Witness ==
    /\ storageType = "sqlite"
    /\ \E w, v \in Workers :
           /\ op[w] = "Update" /\ pc[w] = "done" /\ ret[w].err = ErrServerNotFound
           /\ loc[w].server.ID = arg[w].server.ID
           /\ loc[w].server.ID # ""
           /\ op[v] = "Delete" /\ pc[v] = "done" /\ ret[v].err = NoErr
           /\ arg[v].key = arg[w].server.ID
           /\ RowsByID(table, arg[w].server.ID) = {}

\* Worker w holds the lock of the in-memory store
HoldsLock(w) == writer = w \/ w \in readers

(* C35: every operation of the in-memory store releases the lock it took
   on every return path, no operation takes the lock while it holds it,
   and under fair scheduling every call that has entered returns: no set
   of concurrent callers deadlocks. *)
C35_Terminates ==
    /\ [](\A w \in Workers : pc[w] \in {"idle", "done"} => ~HoldsLock(w))
    /\ [][\A w \in Workers : (Lock(w) \/ RLock(w)) => ~HoldsLock(w)]_vars
    /\ \A w \in Workers : (pc[w] \in {"lock", "body"}) ~> (pc[w] = "done")

\* A writer is inside its locked section while the other worker waits for
\* the lock.
C35_Witness ==
    /\ storageType = "memory"
    /\ \E w, v \in Workers :
           /\ writer = w /\ pc[w] = "body"
           /\ v # w /\ pc[v] = "lock"

(* C31: the body of a 201 response of POST /servers carries the field
   values, the store-assigned created_at included, that GetByID of the
   created id returns right after the request. *)
C31_Original ==
    [][\A w \in Workers : \A id \in IDs :
           (PostServers(w) /\ ret'[w].status = "StatusCreated"
                /\ arg'[w].server.ID = id) =>
               Value(heap, ret'[w].server) = StoredValue(id)']_vars

DetailPath(id) == Path(<<"servers", "/", id>>)

(* C32: the read handlers reject a bad request before they touch the store:
   a method other than GET gets 405, GET /servers/ with an empty id gets
   400 and GET /servers/search without a name gets 400, each without a
   store call; any other GET /servers/{id} calls GetByID once and answers
   404 when it reports not found, 500 on any other error and 200 with the
   record GetByID returned. *)
C32_ReadHandlers ==
    [][\A w \in Workers :
          Serve(w) =>
            LET q == arg'[w].body
                r == ret'[w]
                id == extractIDFromPath(q.path, Path(<<"servers", "/">>))
            IN  /\ (r.handler # "NotFoundHandler" /\ q.method # "GET") =>
                       r.status = "StatusMethodNotAllowed" /\ ~r.called
                /\ (r.handler = "ServerDetailHandler" /\ q.method = "GET" /\ id = "") =>
                       r.status = "StatusBadRequest" /\ ~r.called
                /\ (r.handler = "SearchHandler" /\ q.method = "GET" /\ q.name = "") =>
                       r.status = "StatusBadRequest" /\ ~r.called
                /\ (r.handler = "ServerDetailHandler" /\ q.method = "GET" /\ id # "") =>
                       /\ r.called
                       /\ r.fault = "ok" => r.result = GetByIDNow(id)
                       /\ r.result.err = ErrServerNotFound <=> r.status = "StatusNotFound"
                       /\ r.result.err \notin {NoErr, ErrServerNotFound} <=>
                              r.status = "StatusInternalServerError"
                       /\ r.result.err = NoErr <=> r.status = "StatusOK"
                       /\ r.status = "StatusOK" => r.result.server.ID = id]_vars

\* The detail handler has answered 404 for a missing record, 500 for a
\* failing engine and 400 for the empty id.
C32_Witness ==
    \E w, v \in Workers :
        /\ op[w] = "Serve" /\ op[v] = "Serve"
        /\ ret[w].handler = "ServerDetailHandler" /\ ret[v].handler = "ServerDetailHandler"
        /\ ret[w].status = "StatusNotFound"
        /\ ret[v].status \in {"StatusInternalServerError", "StatusBadRequest"}

(* C38: every record created through POST /servers with a 201 is
   retrievable through the routed API: GET /servers/{id} is dispatched to
   the detail handler and, the engine not failing, returns 200 with the
   record, also for the ids count and search. *)
C38_Original ==
    [][\A w, v \in Workers : \A id \in ApiIDs :
          (/\ op[v] = "POST /servers" /\ pc[v] = "done"
           /\ ret[v].status = "StatusCreated" /\ arg[v].server.ID = id
           /\ Serve(w)
           /\ arg'[w].body = Request("GET", DetailPath(id), "")
           /\ ret'[w].fault = "ok") =>
              /\ ret'[w].handler = "ServerDetailHandler"
              /\ ret'[w].status = "StatusOK"
              /\ Value(heap, ret'[w].result.server) = StoredValue(id)]_vars

(* C34: opening the SQLite store applies the schema migration
   idempotently: after the first and after every later successful startup
   schema_migrations holds exactly one row, of version 1, and a startup
   leaves the rows of servers, and at a later startup the whole file, as
   they were. *)
C34_MigrationIdempotent ==
    [][\A w \in Workers :
          (NewSQLiteStore(w) /\ ret'[w].err = NoErr) =>
              /\ \E r \in MigrationRows(table') :
                     r.version = 1 /\ MigrationRows(table') = {r}
              /\ ServerRows(table') = ServerRows(table)
              /\ MigrationRows(table) # {} => table' = table]_vars

\* A process has started on a file that an earlier run migrated, at another
\* time, and filled with a record.
C34_Witness ==
    \E w \in Workers :
        /\ op[w] = "NewSQLiteStore" /\ pc[w] = "open"
        /\ ServerRows(table) # {}
        /\ \E r \in MigrationRows(table) : r.applied_at # now

\* The checks of a configuration in the order claimed, each with the words
\* its error starts with
ConfigChecks ==
    <<"invalid environment", "invalid log level", "invalid storage type",
      "invalid port", "invalid database driver",
      "max_open_conns must be positive", "max_idle_conns must be positive">>

\* Whether configuration c passes the i-th check
PassesCheck(c, i) ==
    CASE i = 1 -> c.Environment \in {"dev", "development", "test", "staging", "prod", "production"}
      [] i = 2 -> c.LogLevel \in {"debug", "info", "warn", "error"}
      [] i = 3 -> c.StorageType \in {"memory", "file", "sqlite", "database"}
      [] i = 4 -> AtoiErr(c.Port) = NoErr
      [] i = 5 -> c.DatabaseDriver \in {"sqlite3", "postgres", "mysql"}
      [] i = 6 -> c.MaxOpenConns > 0
      [] OTHER -> c.MaxIdleConns > 0

\* The field the i-th check reads
CheckedFields(c, i) ==
    <<c.Environment, c.LogLevel, c.StorageType, c.Port, c.DatabaseDriver,
      c.MaxOpenConns, c.MaxIdleConns>>[i]

(* C39: Config.Validate checks, in this order, the environment, the log
   level, the storage type, that the port is numeric, the database driver
   and that the max-open and max-idle connection counts are positive; its
   error names the first check that fails, whatever the fields of the later
   checks hold, and it returns nil exactly when every check passes. *)
C39_ValidateOrder ==
    \A w \in Workers :
        op[w] = "Config.Validate" =>
            LET c == arg[w].config
                err == ret[w].err
                failing == {i \in 1..Len(ConfigChecks) : ~PassesCheck(c, i)}
            IN  /\ err = NoErr <=> failing = {}
                /\ \A i \in failing :
                       (\A j \in failing : i <= j) =>
                           /\ err = WrappedErr(ConfigChecks[i])
                           /\ \A d \in Configs :
                                  (\A k \in 1..i : CheckedFields(d, k) = CheckedFields(c, k))
                                      => ConfigValidate(d) = err

\* A configuration whose port and driver both fail is refused for its port,
\* and one that passes every check has been accepted.
C39_Witness ==
    \E w \in Workers :
        /\ op[w] = "Config.Validate"
        /\ AtoiErr(arg[w].config.Port) # NoErr
        /\ arg[w].config.DatabaseDriver = ""
        /\ arg[w].config.MaxOpenConns <= 0
        /\ ret[w].err = WrappedErr("invalid port")

====
